---- MODULE Spec2Model ----
(***************************************************************************)
(* A model of environ (twin-so/environ): the Remote backends FS, Local,    *)
(* S3 and GCS, the Cache decorator (cache.go), the registry and the pull,  *)
(* push and diff operations of main.go.                                    *)
(*                                                                         *)
(* Byte strings (file contents, archives, keys, ref-file contents, error   *)
(* texts) are sequences of tokens.  A file on disk is a set: {} while the  *)
(* file does not exist, {bytes} while it does.                             *)
(***************************************************************************)
EXTENDS Integers, Sequences, FiniteSets, TLC

VARIABLES
    kind,    \* kind[b]: the backend variant behind remote b ("of" or "by")
    environs,\* the registry: environment name -> [Files, Ref]
    top,     \* the Remote every environment is bound to: "of" or "cache"
    store,   \* store[b]: the blobs of backend b, a function key -> bytes
    tree,    \* tree[p][path]: the working tree of process p
    refs,    \* refs[p][path]: the ref file at path in p's working tree
    pc,      \* pc[p]: the call stack of process p, innermost frame first
    ret,     \* ret[p]: what the call that returned last handed back
    cur,     \* cur[p]: the record of the operation p is running
    last,    \* the record of the operation that completed last
    budget,  \* the number of I/O faults that may still strike
    batch    \* batch[p]: the pullAll, pushAll or diffAll that p runs or ran last

vars == <<kind, environs, top, store, tree, refs, pc, ret, cur, last, budget, batch>>

(***************************************************************************)
(* Bounds of the model.                                                    *)
(***************************************************************************)
NContents == 2          \* distinct file contents
MaxFaults == 1          \* I/O faults in one behaviour of a specification with faults

ContentPool == <<"x", "y", "z", "w">>
Contents == {ContentPool[i] : i \in 1..NContents}
Paths == {"a", "b"}
Procs == {"p1", "p2"}
Kinds == {"FS", "Local", "S3", "GCS"}
Backends == {"of", "by"}
NoFile == "NoFile"
nil == <<>>

(***************************************************************************)
(* Helpers on sequences and files.                                         *)
(***************************************************************************)
Range(s) == {s[i] : i \in 1..Len(s)}
Prefix(s, n) == SubSeq(s, 1, n)
Min(a, b) == IF a < b THEN a ELSE b
FileOf(f) == CHOOSE x \in f : TRUE
Has(b, key) == key \in DOMAIN store[b]
Blob(b, key) == IF Has(b, key) THEN {store[b][key]} ELSE {}
Put(st, b, key, bytes) ==
    [st EXCEPT ![b] = [k \in (DOMAIN st[b]) \cup {key} |->
                           IF k = key THEN bytes ELSE st[b][k]]]

\* How much of val a write that fails part-way has written: nothing, or all
\* but the last byte.
PartialLens(val) == {0, Len(val) - 1} \cap (0..(Len(val) - 1))

\* What a write of the first n bytes of val at offset 0 leaves in a file that
\* held old: the written bytes, then whatever old held beyond them.
Overlay(old, val, n) ==
    Prefix(val, n) \o (IF Len(old) > n THEN SubSeq(old, n + 1, Len(old)) ELSE <<>>)


(***************************************************************************)
(* Errors are texts; nil is the empty text.  Wrap is fmt.Errorf("msg: %w").*)
(***************************************************************************)
Wrap(msg, err) == <<msg>> \o err
OK == [err |-> nil, data |-> nil]
Failed(err) == [err |-> err, data |-> nil]

(***************************************************************************)
(* Call stacks.  A frame holds the label of the code position, the remote  *)
(* (or environment) it works on, and the key and value of the call.        *)
(***************************************************************************)
Frame(l, r, key, val) == [l |-> l, r |-> r, key |-> key, val |-> val]
Busy(p) == pc[p] # <<>>
At(p, l) == Busy(p) /\ Head(pc[p]).l = l
Top(p) == Head(pc[p])
Return(p, r) ==
    /\ pc' = [pc EXCEPT ![p] = Tail(@)]
    /\ ret' = [ret EXCEPT ![p] = r]
Goto(p, frames) == pc' = [pc EXCEPT ![p] = frames \o Tail(@)]

CanFault == budget > 0
Fault(p) ==
    /\ budget' = budget - 1
    /\ cur' = [cur EXCEPT ![p].flt = TRUE]
NoFault == UNCHANGED <<budget, cur>>
Logged(p, call) == cur' = [cur EXCEPT ![p].calls = Append(@, call)]

\* The first code position of b.Write(key, val) and of b.Get(key).
WriteLabel(k) ==
    CASE k = "FS" -> "fs_open"
      [] k = "Local" -> "local_open"
      [] k = "S3" -> "s3_put"
      [] k = "GCS" -> "gcs_put"
BackendWrite(b, key, val) == Frame(WriteLabel(kind[b]), b, key, val)
BackendGet(b, key) == Frame("b_get", b, key, nil)

(***************************************************************************)
(* FS.Write (fs.go): MkdirAll, OpenFile(O_CREATE|O_EXCL|O_WRONLY), then    *)
(* fp.Write.  An existing file is success; the file exists, empty, from    *)
(* OpenFile until fp.Write has run.                                        *)
(***************************************************************************)
\* FSOpen without the os.IsExist case: an existing key is an error.
FSOpenStrict(p) ==
    /\ At(p, "fs_open")
    /\ LET f == Top(p) IN
       \/ /\ Has(f.r, f.key)
          /\ Return(p, Failed(<<"EEXIST">>))
          /\ NoFault
          /\ UNCHANGED store
       \/ /\ ~Has(f.r, f.key)
          /\ store' = Put(store, f.r, f.key, <<>>)
          /\ Goto(p, <<[f EXCEPT !.l = "file_write"]>>)
          /\ NoFault
          /\ UNCHANGED ret
    /\ UNCHANGED <<batch, kind, environs, top, tree, refs, last>>

FSOpen(p) ==
    /\ At(p, "fs_open")
    /\ LET f == Top(p) IN
       \/ /\ CanFault                      \* MkdirAll or OpenFile fails otherwise
          /\ Fault(p)
          /\ Return(p, Failed(<<"EACCES">>))
          /\ UNCHANGED store
       \/ /\ Has(f.r, f.key)               \* os.IsExist(err): success
          /\ Return(p, OK)
          /\ NoFault
          /\ UNCHANGED store
       \/ /\ ~Has(f.r, f.key)              \* created, empty
          /\ store' = Put(store, f.r, f.key, <<>>)
          /\ Goto(p, <<[f EXCEPT !.l = "file_write"]>>)
          /\ NoFault
          /\ UNCHANGED ret
    /\ UNCHANGED <<batch, kind, environs, top, tree, refs, last>>

(***************************************************************************)
(* Local.Write is os.WriteFile: OpenFile(O_WRONLY|O_CREATE|O_TRUNC),       *)
(* Write, Close.                                                           *)
(***************************************************************************)
LocalOpen(p) ==
    /\ At(p, "local_open")
    /\ LET f == Top(p) IN
       \/ /\ CanFault
          /\ Fault(p)
          /\ Return(p, Failed(<<"EACCES">>))
          /\ UNCHANGED store
       \/ /\ store' = Put(store, f.r, f.key, <<>>)
          /\ Goto(p, <<[f EXCEPT !.l = "file_write"]>>)
          /\ NoFault
          /\ UNCHANGED ret
    /\ UNCHANGED <<batch, kind, environs, top, tree, refs, last>>

\* fp.Write(value) of FS.Write, f.Write(data) of os.WriteFile: all of the
\* value, or an error after the first n bytes.
FileWrite(p) ==
    /\ At(p, "file_write")
    /\ LET f == Top(p)
           old == IF Has(f.r, f.key) THEN store[f.r][f.key] ELSE <<>>
       IN
       \/ /\ store' = Put(store, f.r, f.key, Overlay(old, f.val, Len(f.val)))
          /\ Return(p, OK)
          /\ NoFault
       \/ /\ CanFault
          /\ \E n \in PartialLens(f.val) :
                store' = Put(store, f.r, f.key, Overlay(old, f.val, n))
          /\ Fault(p)
          /\ Return(p, Failed(<<"ENOSPC">>))
    /\ UNCHANGED <<batch, kind, environs, top, tree, refs, last>>

(***************************************************************************)
(* S3.Write (s3.go) and GCS.Write: one conditional put; the                *)
(* store's "already exists" answer is recognised by its text and dropped.  *)
(***************************************************************************)
\* The check of the error text left out: every answer counts as stored.
realS3WriteErrorNever(err) == FALSE
realS3WriteError(err) == err # nil /\ "PreconditionFailed" \notin Range(err)
realWriteError(err) == err # nil /\ "conditionNotMet" \notin Range(err)

\* Failures of a put other than "already exists": permission, network, quota.
S3Failures == {<<"api", "error", "AccessDenied">>, <<"api", "error", "RequestTimeout">>,
               <<"api", "error", "SlowDown">>}
GCSFailures == {<<"googleapi", "Error", "403", "forbidden">>, <<"net", "timeout">>,
                <<"googleapi", "Error", "429", "rateLimitExceeded">>}

\* The answers of the object store to a put-if-absent of key: the error and
\* whether the object was stored.
PutAnswers(b, key, exists) ==
    IF Has(b, key)
    THEN {[err |-> exists, stored |-> FALSE]}
    ELSE {[err |-> nil, stored |-> TRUE]}

S3Put(p) ==
    /\ At(p, "s3_put")
    /\ LET f == Top(p) IN
       \/ /\ \E a \in PutAnswers(f.r, f.key, <<"api", "error", "PreconditionFailed">>) :
                /\ store' = IF a.stored THEN Put(store, f.r, f.key, f.val) ELSE store
                /\ Return(p, IF realS3WriteError(a.err) THEN Failed(a.err) ELSE OK)
          /\ NoFault
       \/ /\ CanFault
          /\ Fault(p)
          /\ \E err \in S3Failures :
                Return(p, IF realS3WriteError(err) THEN Failed(err) ELSE OK)
          /\ UNCHANGED store
    /\ UNCHANGED <<batch, kind, environs, top, tree, refs, last>>

GCSPut(p) ==
    /\ At(p, "gcs_put")
    /\ LET f == Top(p) IN
       \/ /\ \E a \in PutAnswers(f.r, f.key, <<"googleapi", "Error", "412", "conditionNotMet">>) :
                /\ store' = IF a.stored THEN Put(store, f.r, f.key, f.val) ELSE store
                /\ Return(p, IF realWriteError(a.err) THEN Failed(a.err) ELSE OK)
          /\ NoFault
       \/ /\ CanFault
          /\ Fault(p)
          /\ \E err \in GCSFailures :
                Return(p, IF realWriteError(err) THEN Failed(err) ELSE OK)
          /\ UNCHANGED store
    /\ UNCHANGED <<batch, kind, environs, top, tree, refs, last>>

(***************************************************************************)
(* Get of the four backends: os.ReadFile, GetObject, NewReader + ReadAll.  *)
(***************************************************************************)
NotFound(k) ==
    CASE k \in {"FS", "Local"} -> <<"ENOENT">>
      [] k = "S3" -> <<"api", "error", "NoSuchKey">>
      [] k = "GCS" -> <<"storage", "object", "doesn't", "exist">>

BackendRead(p) ==
    /\ At(p, "b_get")
    /\ LET f == Top(p) IN
       \/ /\ Has(f.r, f.key)
          /\ Return(p, [err |-> nil, data |-> store[f.r][f.key]])
          /\ NoFault
       \/ /\ ~Has(f.r, f.key)
          /\ Return(p, Failed(NotFound(kind[f.r])))
          /\ NoFault
       \/ /\ CanFault
          /\ Fault(p)
          /\ Return(p, Failed(<<"EIO">>))
    /\ UNCHANGED <<batch, kind, environs, top, store, tree, refs, last>>

BackendWriteStep(p) ==
    \/ FSOpen(p)
    \/ LocalOpen(p)
    \/ FileWrite(p)
    \/ S3Put(p)
    \/ GCSPut(p)

BackendStep(p) ==
    \/ BackendWriteStep(p)
    \/ BackendRead(p)


(***************************************************************************)
(* Calls through the Remote interface.  Remote "cache" is Cache{Of, By}    *)
(* over the backends "of" and "by"; the others are the backends themselves.*)
(* RemoteWrite and RemoteGet give the frames of the call and CallLog the   *)
(* calls it issues at once.                                                *)
(***************************************************************************)
RemoteWrite(r, key, val) ==
    IF r = "cache"
    THEN <<BackendWrite("of", key, val), Frame("cwrite_of", r, key, val)>>
    ELSE <<BackendWrite(r, key, val)>>
RemoteGet(r, key) ==
    IF r = "cache"
    THEN <<BackendGet("by", key), Frame("cget_by", r, key, nil)>>
    ELSE <<BackendGet(r, key)>>
CallLog(r, op) ==
    IF r = "cache"
    THEN <<<<r, op>>, <<IF op = "Write" THEN "of" ELSE "by", op>>>>
    ELSE <<<<r, op>>>>

(***************************************************************************)
(* Cache.Get (cache.go): By.Get; on any error Of.Get, then By.Write.       *)
(***************************************************************************)
\* CacheGetBy that goes to the origin whatever By.Get returned.
CacheGetByAlwaysOf(p) ==
    /\ At(p, "cget_by")
    /\ LET f == Top(p) IN
          /\ Goto(p, <<BackendGet("of", f.key), [f EXCEPT !.l = "cget_of"]>>)
          /\ Logged(p, <<"of", "Get">>)
          /\ UNCHANGED ret
    /\ UNCHANGED <<batch, kind, environs, top, store, tree, refs, last, budget>>

CacheGetBy(p) ==
    /\ At(p, "cget_by")
    /\ LET f == Top(p) IN
       IF ret[p].err = nil
       THEN /\ Return(p, ret[p])
            /\ UNCHANGED cur
       ELSE /\ Goto(p, <<BackendGet("of", f.key), [f EXCEPT !.l = "cget_of"]>>)
            /\ Logged(p, <<"of", "Get">>)
            /\ UNCHANGED ret
    /\ UNCHANGED <<batch, kind, environs, top, store, tree, refs, last, budget>>

\* CacheGetOf that hands the origin's content back without populating By.
CacheGetOfNoPopulate(p) ==
    /\ At(p, "cget_of")
    /\ Return(p, ret[p])
    /\ UNCHANGED <<batch, kind, environs, top, store, tree, refs, cur, last, budget>>

CacheGetOf(p) ==
    /\ At(p, "cget_of")
    /\ LET f == Top(p) IN
       IF ret[p].err # nil
       THEN /\ Return(p, Failed(ret[p].err))
            /\ UNCHANGED cur
       ELSE /\ Goto(p, <<BackendWrite("by", f.key, ret[p].data),
                         [f EXCEPT !.l = "cget_pop", !.val = ret[p].data]>>)
            /\ Logged(p, <<"by", "Write">>)
            /\ UNCHANGED ret
    /\ UNCHANGED <<batch, kind, environs, top, store, tree, refs, last, budget>>

\* CacheGetPop that hands the origin's content back whatever By.Write returned.
CacheGetPopLenient(p) ==
    /\ At(p, "cget_pop")
    /\ Return(p, [err |-> nil, data |-> Top(p).val])
    /\ UNCHANGED <<batch, kind, environs, top, store, tree, refs, cur, last, budget>>

CacheGetPop(p) ==
    /\ At(p, "cget_pop")
    /\ LET f == Top(p) IN
       IF ret[p].err # nil
       THEN Return(p, Failed(ret[p].err))
       ELSE Return(p, [err |-> nil, data |-> f.val])
    /\ UNCHANGED <<batch, kind, environs, top, store, tree, refs, cur, last, budget>>

(***************************************************************************)
(* Cache.Write (cache.go): Of.Write, and on success By.Write.              *)
(***************************************************************************)
\* CacheWriteOf that stops after Of.Write: no write-through to By.
CacheWriteOfOnly(p) ==
    /\ At(p, "cwrite_of")
    /\ Return(p, [err |-> ret[p].err, data |-> nil])
    /\ UNCHANGED <<batch, kind, environs, top, store, tree, refs, cur, last, budget>>

\* CacheWriteOf that writes By whatever Of.Write returned.
CacheWriteOfAlways(p) ==
    /\ At(p, "cwrite_of")
    /\ LET f == Top(p) IN
          /\ Goto(p, <<BackendWrite("by", f.key, f.val), [f EXCEPT !.l = "cwrite_by"]>>)
          /\ Logged(p, <<"by", "Write">>)
          /\ UNCHANGED ret
    /\ UNCHANGED <<batch, kind, environs, top, store, tree, refs, last, budget>>

CacheWriteOf(p) ==
    /\ At(p, "cwrite_of")
    /\ LET f == Top(p) IN
       IF ret[p].err # nil
       THEN /\ Return(p, Failed(ret[p].err))
            /\ UNCHANGED cur
       ELSE /\ Goto(p, <<BackendWrite("by", f.key, f.val), [f EXCEPT !.l = "cwrite_by"]>>)
            /\ Logged(p, <<"by", "Write">>)
            /\ UNCHANGED ret
    /\ UNCHANGED <<batch, kind, environs, top, store, tree, refs, last, budget>>

CacheWriteBy(p) ==
    /\ At(p, "cwrite_by")
    /\ Return(p, [err |-> ret[p].err, data |-> nil])
    /\ UNCHANGED <<batch, kind, environs, top, store, tree, refs, cur, last, budget>>

CacheStep(p) ==
    \/ CacheGetBy(p)
    \/ CacheGetOf(p)
    \/ CacheGetPop(p)
    \/ CacheWriteOf(p)
    \/ CacheWriteBy(p)

(***************************************************************************)
(* The record of an operation: what was called, on what, the calls it      *)
(* issued, the local paths it wrote, how it ended, and the state it read   *)
(* (pre) and left (post): the working tree, the ref file and the blobs     *)
(* stored under its key.                                                   *)
(***************************************************************************)
\* What a diffZips that was not called has returned and printed.
NoDiff == [err |-> nil, out |-> <<>>]

Snap(t, r, st, key) ==
    [tree |-> t, ref |-> r,
     of |-> IF key \in DOMAIN st["of"] THEN {st["of"][key]} ELSE {},
     by |-> IF key \in DOMAIN st["by"] THEN {st["by"][key]} ELSE {}]

NewOp(p, op, env, key, val, calls, t, r) ==
    [op |-> op, p |-> p, env |-> env, key |-> key, val |-> val, calls |-> calls, seq |-> 0,
     n |-> 0, wrote |-> {},
     done |-> FALSE, err |-> nil, data |-> nil, flt |-> FALSE,
     conc |-> \E q \in Procs \ {p} : Busy(q),
     args |-> nil, gets |-> <<>>, diff |-> NoDiff,
     pre |-> Snap(t, r, store, key), post |-> Snap(t, r, store, key)]

Idle == [op |-> "none", p |-> "-", env |-> "-", key |-> nil, val |-> nil, calls |-> <<>>,
         seq |-> 0, n |-> 0, wrote |-> {},
         done |-> TRUE, err |-> nil, data |-> nil, flt |-> FALSE, conc |-> FALSE,
         args |-> nil, gets |-> <<>>, diff |-> NoDiff,
         pre |-> [tree |-> <<>>, ref |-> {}, of |-> {}, by |-> {}],
         post |-> [tree |-> <<>>, ref |-> {}, of |-> {}, by |-> {}]]

Begin(p, rec) ==
    /\ cur' = [q \in Procs |->
                 IF q = p THEN rec
                 ELSE IF Busy(q) THEN [cur[q] EXCEPT !.conc = TRUE] ELSE cur[q]]
    /\ UNCHANGED batch

Finished(rec, err, data, t, r, st) ==
    [rec EXCEPT !.done = TRUE, !.err = err, !.data = data, !.seq = 1 - last.seq,
                !.post = Snap(t, r, st, rec.key)]

\* pullAll, pushAll, diffAll: what the loop does when the operation on an
\* environment has returned.  AdvanceKeepGoing notes the error and goes on.
NoBatch == [op |-> "none", names |-> <<>>, todo |-> <<>>, log |-> <<>>, err |-> nil,
            run |-> FALSE, tree |-> <<>>, refs |-> <<>>]
LogEntry(rec) == [name |-> rec.env, err |-> rec.err, calls |-> rec.calls, wrote |-> rec.wrote]
AdvanceKeepGoing(b, rec) ==
    IF ~b.run THEN b
    ELSE [b EXCEPT !.todo = Tail(@),
                   !.log = Append(@, LogEntry(rec)),
                   !.err = IF rec.err # nil THEN <<"failed to", b.op, rec.env>> \o rec.err ELSE @,
                   !.run = Tail(b.todo) # <<>>]
Advance(b, rec) ==
    IF ~b.run THEN b
    ELSE IF rec.err # nil
    THEN [b EXCEPT !.log = Append(@, LogEntry(rec)),
                   !.err = <<"failed to", b.op, rec.env>> \o rec.err,
                   !.run = FALSE]
    ELSE [b EXCEPT !.todo = Tail(@),
                   !.log = Append(@, LogEntry(rec)),
                   !.run = Tail(b.todo) # <<>>]

End(p, rec) ==
    /\ cur' = [cur EXCEPT ![p] = Idle]
    /\ ret' = [ret EXCEPT ![p] = OK]
    /\ last' = rec
    /\ batch' = [batch EXCEPT ![p] = Advance(@, rec)]

(***************************************************************************)
(* A client of the Remote interface calling r.Write(key, val), r.Get(key). *)
(***************************************************************************)
ClientKeys == {<<"k">>}
ClientVals == {<<c>> : c \in Contents} \cup {<<ContentPool[1], ContentPool[2]>>}

ClientWrite(p, r, key, val) ==
    /\ ~Busy(p)
    /\ pc' = [pc EXCEPT ![p] = RemoteWrite(r, key, val) \o <<Frame("client", r, key, val)>>]
    /\ Begin(p, NewOp(p, "Write", r, key, val, CallLog(r, "Write"), <<>>, {}))
    /\ UNCHANGED <<batch, kind, environs, top, store, tree, refs, ret, last, budget>>

ClientGet(p, r, key) ==
    /\ ~Busy(p)
    /\ pc' = [pc EXCEPT ![p] = RemoteGet(r, key) \o <<Frame("client", r, key, nil)>>]
    /\ Begin(p, NewOp(p, "Get", r, key, nil, CallLog(r, "Get"), <<>>, {}))
    /\ UNCHANGED <<batch, kind, environs, top, store, tree, refs, ret, last, budget>>

ClientDone(p) ==
    /\ At(p, "client")
    /\ pc' = [pc EXCEPT ![p] = <<>>]
    /\ End(p, Finished(cur[p], ret[p].err, ret[p].data, <<>>, {}, store))
    /\ UNCHANGED <<kind, environs, top, store, tree, refs, budget>>

(***************************************************************************)
(* The backends on their own.  Backend "of" is any of the four variants.   *)
(* SpecRemote: clients that call it one after the other.  SpecRace: two    *)
(* independent processes whose calls interleave.                           *)
(***************************************************************************)
RefPaths == {"dev.hash", "prod.hash"}

InitCommon ==
    /\ environs = [dev |-> [Files |-> <<"a", "b">>, Ref |-> "dev.hash"]]
    /\ refs = [p \in Procs |-> [r \in RefPaths |-> {}]]
    /\ store = [b \in Backends |-> <<>>]
    /\ tree = [p \in Procs |-> [f \in Paths |-> NoFile]]
    /\ pc = [p \in Procs |-> <<>>]
    /\ ret = [p \in Procs |-> OK]
    /\ cur = [p \in Procs |-> Idle]
    /\ last = Idle
    /\ batch = [p \in Procs |-> NoBatch]

InitRemote ==
    /\ kind \in {[of |-> k, by |-> "Local"] : k \in Kinds}
    /\ top = "of"
    /\ budget = MaxFaults
    /\ InitCommon

Quiet == \A q \in Procs : ~Busy(q)

NextRemote ==
    \E p \in Procs :
        \/ \E key \in ClientKeys, val \in ClientVals : Quiet /\ ClientWrite(p, "of", key, val)
        \/ \E key \in ClientKeys : Quiet /\ ClientGet(p, "of", key)
        \/ ClientDone(p)
        \/ BackendStep(p)

SpecRemote == InitRemote /\ [][NextRemote]_vars

InitRace ==
    /\ InitRemote
    /\ kind["of"] \in {"FS", "Local"}

NextRace ==
    \E p \in Procs :
        \/ \E key \in ClientKeys, val \in ClientVals : ClientWrite(p, "of", key, val)
        \/ \E key \in ClientKeys : ClientGet(p, "of", key)
        \/ ClientDone(p)
        \/ FSOpen(p)
        \/ LocalOpen(p)
        \/ FileWrite(p)
        \/ BackendRead(p)

SpecRace == InitRace /\ [][NextRace]_vars

\* A step in which an operation returns to its caller: every completion flips
\* the seq bit of the record kept in last.
Completes == last'.seq # last.seq

(***************************************************************************)
(* C5.  Write never overwrites: once a Write(k, v1) has succeeded, a later *)
(* Write(k, v2) on the same backend succeeds and leaves Get(k) = v1,       *)
(* whatever v2 is.  Stated for fault-free runs of any backend variant.     *)
(***************************************************************************)
C5_WriteNeverOverwrites ==
    [][(/\ Completes
        /\ budget' = MaxFaults
        /\ last.op = "Write" /\ last.err = nil
        /\ last'.op = "Write" /\ last'.key = last.key)
       => (last'.err = nil /\ last'.post.of = {last.val})]_vars

C7_NoPartialReads ==
    (last.op = "Get" /\ last.err = nil /\ budget = MaxFaults) => last.data \in ClientVals


(***************************************************************************)
(* The Cache decorator on its own: one machine's Cache{Of, By} over any    *)
(* two backend variants, called by one client at a time, while other       *)
(* machines write to the shared origin directly.                           *)
(***************************************************************************)
InitCache ==
    /\ kind \in [Backends -> Kinds]
    /\ top = "cache"
    /\ budget = MaxFaults
    /\ InitCommon

CacheWrite(p, key, val) == Quiet /\ ClientWrite(p, "cache", key, val)
CacheGet(p, key) == Quiet /\ ClientGet(p, "cache", key)
OriginWrite(p, key, val) == Quiet /\ ClientWrite(p, "of", key, val)

NextCache ==
    \/ \E key \in ClientKeys, val \in ClientVals : CacheWrite("p1", key, val)
    \/ \E key \in ClientKeys : CacheGet("p1", key)
    \/ \E key \in ClientKeys, val \in ClientVals : OriginWrite("p2", key, val)
    \/ \E p \in Procs :
        \/ ClientDone(p)
        \/ BackendStep(p)
        \/ CacheStep(p)

SpecCache == InitCache /\ [][NextCache]_vars

CallsTo(rec, r) == {i \in 1..Len(rec.calls) : rec.calls[i][1] = r}

C10_Promotion ==
    (/\ last.op = "Get" /\ last.env = "cache" /\ last.err = nil
     /\ last.pre.by = {})
    => (/\ last.pre.of = {last.data}
        /\ last.post.by = {last.data})

\* A Cache.Get missed in By, hit in Of and returned success.
C10_Witness ==
    /\ last.op = "Get" /\ last.env = "cache" /\ last.err = nil
    /\ last.pre.by = {} /\ last.pre.of # {}
    /\ last.calls = <<<<"cache", "Get">>, <<"by", "Get">>, <<"of", "Get">>, <<"by", "Write">>>>


(***************************************************************************)
(* C11.  Cache hit short-circuits: when By.Get(key) has returned without   *)
(* error, Cache.Get(key) returns those bytes at once; it has called By.Get *)
(* only, calls nothing more and writes nothing.                            *)
(***************************************************************************)
C11_HitShortCircuits ==
    [][\A p \in Procs :
          (At(p, "cget_by") /\ ret[p].err = nil /\ pc'[p] # pc[p])
          => (/\ pc'[p] = Tail(pc[p])
              /\ ret'[p] = ret[p]
              /\ store' = store
              /\ cur[p].calls = <<<<"cache", "Get">>, <<"by", "Get">>>>
              /\ cur'[p].calls = cur[p].calls)]_vars

\* A Cache.Get over a Local By and an S3 origin was served by By.
C11_Witness ==
    /\ last.op = "Get" /\ last.env = "cache" /\ last.err = nil
    /\ last.calls = <<<<"cache", "Get">>, <<"by", "Get">>>>
    /\ last.pre.by = {last.data} /\ last.post.by = last.pre.by
    /\ kind["by"] = "Local" /\ kind["of"] = "S3"

(***************************************************************************)
(* C12.  Strict population policy: when By.Get(key) has failed, Of.Get(key)*)
(* has returned content c and the populating By.Write(key, c) has failed,  *)
(* Cache.Get(key) returns that error and no content.                       *)
(***************************************************************************)
C12_StrictPopulation ==
    [][\A p \in Procs :
          (At(p, "cget_pop") /\ ret[p].err # nil /\ pc'[p] # pc[p])
          => (/\ pc'[p] = Tail(pc[p])
              /\ ret'[p].err = ret[p].err
              /\ ret'[p].data = nil)]_vars

\* A Cache.Get missed in By, fetched from Of, failed to write By and failed.
C12_Witness ==
    /\ last.op = "Get" /\ last.env = "cache" /\ last.err # nil /\ last.data = nil
    /\ last.calls = <<<<"cache", "Get">>, <<"by", "Get">>, <<"of", "Get">>, <<"by", "Write">>>>
    /\ last.pre.by = {} /\ last.pre.of # {} /\ last.flt

(***************************************************************************)
(* C13.  Cache.Write ordering: Cache.Write(key, value) calls Of.Write      *)
(* first; while Of.Write runs By is not written; when Of.Write has failed, *)
(* Cache.Write returns its error without calling By.Write; when it has     *)
(* succeeded, By.Write(key, value) is the next call.                       *)
(***************************************************************************)
InCall(p, l) == \E i \in 1..Len(pc[p]) : pc[p][i].l = l

C13_WriteOrdering ==
    [][\A p \in Procs :
          /\ InCall(p, "cwrite_of") => store'["by"] = store["by"]
          /\ (At(p, "cwrite_of") /\ pc'[p] # pc[p])
             => (/\ cur[p].calls = <<<<"cache", "Write">>, <<"of", "Write">>>>
                 /\ IF ret[p].err # nil
                    THEN /\ pc'[p] = Tail(pc[p])
                         /\ ret'[p].err = ret[p].err
                         /\ cur'[p].calls = cur[p].calls
                    ELSE /\ Head(pc'[p]) = BackendWrite("by", Top(p).key, Top(p).val)
                         /\ cur'[p].calls = Append(cur[p].calls, <<"by", "Write">>))]_vars

\* A Cache.Write whose Of.Write failed returned the error and left By, which
\* held other content under the key, alone.
C13_Witness ==
    /\ last.op = "Write" /\ last.env = "cache" /\ last.err # nil
    /\ last.calls = <<<<"cache", "Write">>, <<"of", "Write">>>>
    /\ last.pre.by # {} /\ last.pre.by # {last.val} /\ last.post.by = last.pre.by

(***************************************************************************)
(* C14.  Cache.Write failure and retry: after a Cache.Write(key, value)    *)
(* that returned an error, on a key that held nothing but value before,    *)
(* the same Cache.Write(key, value) with no fault striking returns success *)
(* and leaves both Of and By holding value under key.                      *)
(***************************************************************************)
C14_WriteRetry ==
    [][(/\ Completes
        /\ last.op = "Write" /\ last.env = "cache" /\ last.err # nil
        /\ last.pre.of \subseteq {last.val} /\ last.pre.by \subseteq {last.val}
        /\ last'.op = "Write" /\ last'.env = "cache" /\ ~last'.flt
        /\ last'.key = last.key /\ last'.val = last.val)
       => (/\ last'.err = nil
           /\ last'.post.of = {last.val}
           /\ last'.post.by = {last.val})]_vars

(***************************************************************************)
(* The archive codec of main.go.  An archive is the entries in order, each *)
(* a name and a content, closed by the end-of-central-directory record; a  *)
(* strict prefix of an archive is no archive.                              *)
(***************************************************************************)
EOCD == "EOCD"
Pad == "="
Empty == ""
Whitespace == {" ", "\n"}
HashLen == 2 * Cardinality(Paths) + 2

RECURSIVE ZipWrite(_)
ZipWrite(entries) ==
    IF entries = <<>> THEN <<EOCD>> ELSE Head(entries) \o ZipWrite(Tail(entries))

\* zip.NewReader
ZipRead(bytes) ==
    LET n == Len(bytes) IN
    IF /\ n >= 1
       /\ bytes[n] = EOCD
       /\ (n - 1) % 2 = 0
       /\ \A i \in 1..(n - 1) : bytes[i] # EOCD
    THEN [ok |-> TRUE,
          File |-> [i \in 1..((n - 1) \div 2) |-> <<bytes[2 * i - 1], bytes[2 * i]>>]]
    ELSE [ok |-> FALSE, File |-> <<>>]

\* getLocalZipData that archives the files it finds in the directory, in the
\* order of a directory scan.
getLocalZipDataScan(files, t) ==
    LET scan == SelectSeq(<<"a", "b">>, LAMBDA f : t[f] # NoFile) IN
    [err |-> nil, data |-> ZipWrite([i \in 1..Len(scan) |-> <<scan[i], t[scan[i]]>>])]

\* getLocalZipData that leaves missing files out of the archive.
getLocalZipDataSkipMissing(files, t) ==
    LET present == SelectSeq(files, LAMBDA f : t[f] # NoFile) IN
    [err |-> nil,
     data |-> ZipWrite([i \in 1..Len(present) |-> <<present[i], t[present[i]]>>])]

\* getLocalZipData: the tracked files in declared order; the first one that
\* is missing is an error.
getLocalZipData(files, t) ==
    LET missing == {i \in 1..Len(files) : t[files[i]] = NoFile} IN
    IF missing # {}
    THEN Failed(<<"tracked", "file", files[CHOOSE i \in missing : \A j \in missing : i <= j],
                  "not", "found">>)
    ELSE [err |-> nil,
          data |-> ZipWrite([i \in 1..Len(files) |-> <<files[i], t[files[i]]>>])]

\* generateArchiveID: a fixed-width digest, one per byte string.
generateArchiveID(data) ==
    [i \in 1..HashLen |-> IF i <= Len(data) THEN data[i] ELSE Pad]

\* strings.TrimSpace
RECURSIVE TrimLeft(_)
TrimLeft(s) == IF s # <<>> /\ Head(s) \in Whitespace THEN TrimLeft(Tail(s)) ELSE s
RECURSIVE TrimRight(_)
TrimRight(s) ==
    IF s # <<>> /\ s[Len(s)] \in Whitespace THEN TrimRight(Prefix(s, Len(s) - 1)) ELSE s
TrimSpace(s) == TrimRight(TrimLeft(s))

SetRef(p, path, file) == [refs EXCEPT ![p][path] = file]

(***************************************************************************)
(* push (main.go): build the archive, compare its ID with the ref file,    *)
(* Remote.Write, then os.WriteFile of the ref file.                        *)
(***************************************************************************)
PushStart(p, e) ==
    /\ ~Busy(p)
    /\ e \in DOMAIN environs
    /\ LET env == environs[e]
           ref == refs[p][env.Ref]
           z == getLocalZipData(env.Files, tree[p])
           id == generateArchiveID(z.data)
           early == NewOp(p, "push", e, nil, nil, <<>>, tree[p], ref)
           same == NewOp(p, "push", e, id, z.data, <<>>, tree[p], ref)
           call == NewOp(p, "push", e, id, z.data, CallLog(top, "Write"), tree[p], ref)
       IN
       \/ /\ z.err # nil                          \* a tracked file is missing
          /\ End(p, Finished(early, z.err, nil, tree[p], ref, store))
          /\ UNCHANGED <<pc, budget>>
       \/ /\ z.err = nil /\ CanFault              \* a tracked file cannot be read
          /\ End(p, Finished([early EXCEPT !.flt = TRUE], <<"failed", "to", "read">>,
                             nil, tree[p], ref, store))
          /\ budget' = budget - 1
          /\ UNCHANGED pc
       \/ /\ z.err = nil /\ ref = {id}            \* already up to date
          /\ End(p, Finished(same, nil, nil, tree[p], ref, store))
          /\ UNCHANGED <<pc, budget>>
       \/ /\ z.err = nil /\ ref # {id}
          /\ pc' = [pc EXCEPT ![p] = RemoteWrite(top, id, z.data) \o
                                     <<Frame("push_write", e, id, z.data)>>]
          /\ Begin(p, call)
          /\ UNCHANGED <<ret, last, budget>>
       \/ /\ z.err = nil /\ ref = {id} /\ CanFault \* the ref file cannot be read
          /\ pc' = [pc EXCEPT ![p] = RemoteWrite(top, id, z.data) \o
                                     <<Frame("push_write", e, id, z.data)>>]
          /\ Begin(p, [call EXCEPT !.flt = TRUE])
          /\ budget' = budget - 1
          /\ UNCHANGED <<ret, last>>
    /\ UNCHANGED <<kind, environs, top, store, tree, refs>>

\* What os.WriteFile puts in the ref file: the archive ID (refFileContentLn:
\* followed by a newline, which push does not write).
refFileContentLn(archiveID) == archiveID \o <<"\n">>
refFileContent(archiveID) == archiveID

PushWriteRet(p) ==
    /\ At(p, "push_write")
    /\ pc' = [pc EXCEPT ![p] = <<>>]
    /\ LET f == Top(p)
           path == environs[f.r].Ref
           ref == refs[p][path]
       IN
       \/ /\ ret[p].err # nil
          /\ End(p, Finished(cur[p], Wrap("failed to upload archive", ret[p].err), nil,
                             tree[p], ref, store))
          /\ UNCHANGED <<refs, budget>>
       \/ /\ ret[p].err = nil                     \* os.WriteFile(environ.Ref, archiveID)
          /\ refs' = SetRef(p, path, {refFileContent(f.key)})
          /\ End(p, Finished([cur[p] EXCEPT !.wrote = {path}], nil, nil,
                             tree[p], {refFileContent(f.key)}, store))
          /\ UNCHANGED budget
       \/ /\ ret[p].err = nil /\ CanFault         \* os.WriteFile fails, at open or part-way
          /\ \E left \in {ref} \cup {{Prefix(refFileContent(f.key), n)} :
                                        n \in PartialLens(refFileContent(f.key))} :
                /\ refs' = SetRef(p, path, left)
                /\ End(p, Finished([cur[p] EXCEPT !.flt = TRUE,
                                                  !.wrote = IF left = ref THEN {} ELSE {path}],
                                   Wrap("failed to update ref file", <<"EIO">>), nil,
                                   tree[p], left, store))
          /\ budget' = budget - 1
    /\ UNCHANGED <<kind, environs, top, store, tree>>

(***************************************************************************)
(* pull (main.go): read and trim the ref file, Remote.Get, check the       *)
(* archive's entries against the declared files, then write the entries    *)
(* that differ from the working tree, in archive order.                    *)
(***************************************************************************)
extraneousNone(files, File) == <<>>
missingFiles(files, File) ==
    SelectSeq(files, LAMBDA f : \A i \in 1..Len(File) : File[i][1] # f)
extraneousFiles(files, File) ==
    SelectSeq([i \in 1..Len(File) |-> File[i][1]], LAMBDA f : f \notin Range(files))

\* fileHasChanged: the file at name cannot be read, or holds other bytes.
fileHasChangedAlways(t, name, content) == TRUE
fileHasChangedIfPresent(t, name, content) == t[name] # NoFile /\ t[name] # content
fileHasChanged(t, name, content) == t[name] = NoFile \/ t[name] # content

\* The working tree after the first k entries have been gone through: an
\* entry is written when fileHasChanged says so.
\* The write loop that goes on to the next entry after an error and returns
\* the error when it has been through them all.
RECURSIVE MaterializeRest(_, _, _)
MaterializeRest(t, File, k) ==
    IF k = 0 THEN t
    ELSE LET prev == MaterializeRest(t, File, k - 1) IN
         IF fileHasChanged(prev, File[k][1], File[k][2])
         THEN [prev EXCEPT ![File[k][1]] = File[k][2]]
         ELSE prev
MaterializeKeepGoing(t, File, k) == MaterializeRest(t, File, Len(File))

RECURSIVE Materialize(_, _, _)
Materialize(t, File, k) ==
    IF k = 0 THEN t
    ELSE LET prev == Materialize(t, File, k - 1) IN
         IF fileHasChanged(prev, File[k][1], File[k][2])
         THEN [prev EXCEPT ![File[k][1]] = File[k][2]]
         ELSE prev

\* The entries among the first k that were written, and their number.
writtenEntries(t, File, k) ==
    {i \in 1..k : fileHasChanged(Materialize(t, File, i - 1), File[i][1], File[i][2])}
changedFiles(t, File, k) == Cardinality(writtenEntries(t, File, k))
writtenPaths(t, File, k) == {File[i][1] : i \in writtenEntries(t, File, k)}

PullStart(p, e) ==
    /\ ~Busy(p)
    /\ e \in DOMAIN environs
    /\ LET env == environs[e]
           ref == refs[p][env.Ref]
           early == NewOp(p, "pull", e, nil, nil, <<>>, tree[p], ref)
       IN
       \/ /\ ref = {}
          /\ End(p, Finished(early, <<"failed to read ref file", "ENOENT">>, nil,
                             tree[p], ref, store))
          /\ UNCHANGED <<pc, budget>>
       \/ /\ ref # {} /\ CanFault
          /\ End(p, Finished([early EXCEPT !.flt = TRUE], <<"failed to read ref file", "EIO">>,
                             nil, tree[p], ref, store))
          /\ budget' = budget - 1
          /\ UNCHANGED pc
       \/ /\ ref = {<<>>}
          /\ End(p, Finished(early, <<"ref file is empty">>, nil, tree[p], ref, store))
          /\ UNCHANGED <<pc, budget>>
       \/ /\ ref # {} /\ ref # {<<>>}
          /\ LET key == TrimSpace(FileOf(ref)) IN
                /\ pc' = [pc EXCEPT ![p] = RemoteGet(top, key) \o
                                           <<Frame("pull_get", e, key, nil)>>]
                /\ Begin(p, [NewOp(p, "pull", e, key, nil, CallLog(top, "Get"), tree[p], ref)
                                EXCEPT !.gets = <<key>>])
          /\ UNCHANGED <<ret, last, budget>>
    /\ UNCHANGED <<kind, environs, top, store, tree, refs>>

\* pull: "if err != nil" after environ.Remote.Get(ref).
downloadFailedNever(r) == FALSE
downloadFailed(r) == r.err # nil

PullGetRet(p) ==
    /\ At(p, "pull_get")
    /\ pc' = [pc EXCEPT ![p] = <<>>]
    /\ LET f == Top(p)
           env == environs[f.r]
           ref == refs[p][env.Ref]
           z == ZipRead(ret[p].data)
           n == Len(z.File)
           missing == missingFiles(env.Files, z.File)
           extra == extraneousFiles(env.Files, z.File)
           fail(err) == /\ End(p, Finished(cur[p], err, ret[p].data, tree[p], ref, store))
                        /\ UNCHANGED <<tree, budget>>
       IN
       \/ /\ downloadFailed(ret[p])
          /\ fail(Wrap("failed to download ZIP", ret[p].err))
       \/ /\ ~downloadFailed(ret[p]) /\ ~z.ok
          /\ fail(<<"failed to read ZIP">>)
       \/ /\ ~downloadFailed(ret[p]) /\ z.ok /\ missing # <<>>
          /\ fail(Wrap("missing files in ZIP", missing))
       \/ /\ ~downloadFailed(ret[p]) /\ z.ok /\ missing = <<>> /\ extra # <<>>
          /\ fail(Wrap("extraneous files in ZIP", extra))
       \/ /\ ~downloadFailed(ret[p]) /\ z.ok /\ missing = <<>> /\ extra = <<>>
          /\ LET t == Materialize(tree[p], z.File, n) IN
                /\ tree' = [tree EXCEPT ![p] = t]
                /\ End(p, Finished([cur[p] EXCEPT !.n = changedFiles(tree[p], z.File, n),
                                                  !.wrote = writtenPaths(tree[p], z.File, n)],
                                   nil, ret[p].data, t, ref, store))
          /\ UNCHANGED budget
       \/ /\ ~downloadFailed(ret[p]) /\ z.ok /\ missing = <<>> /\ extra = <<>> /\ CanFault
          \* a local I/O error at entry k: before the file is touched, or after
          \* os.Create has truncated it
          /\ \E k \in 1..n, truncated \in BOOLEAN :
                LET done == Materialize(tree[p], z.File, k - 1)
                    hit == truncated /\ fileHasChanged(done, z.File[k][1], z.File[k][2])
                    t == IF hit THEN [done EXCEPT ![z.File[k][1]] = Empty] ELSE done
                IN /\ tree' = [tree EXCEPT ![p] = t]
                   /\ End(p, Finished([cur[p] EXCEPT
                                         !.flt = TRUE,
                                         !.n = changedFiles(tree[p], z.File, k - 1),
                                         !.wrote = writtenPaths(tree[p], z.File, k - 1) \cup
                                                   (IF hit THEN {z.File[k][1]} ELSE {})],
                                      <<"failed to write file", z.File[k][1]>>, ret[p].data,
                                      t, ref, store))
          /\ budget' = budget - 1
    /\ UNCHANGED <<kind, environs, top, store, refs>>

(***************************************************************************)
(* What happens between two runs of the program: the user edits or removes *)
(* tracked files, checks out another ref, or changes the declared file     *)
(* list in environ.star; that drops the record of the last operation.      *)
(* Starting from a fresh working tree (no tracked file exists) keeps it.   *)
(***************************************************************************)
FileLists == {<<"a">>, <<"a", "b">>}
Forget == last' = [Idle EXCEPT !.seq = last.seq]

UserEdit(p, f, c) ==
    /\ Quiet
    /\ tree[p][f] # c
    /\ tree' = [tree EXCEPT ![p][f] = c]
    /\ Forget
    /\ UNCHANGED <<batch, kind, environs, top, store, refs, pc, ret, cur, budget>>

UserWipe(p, e) ==
    /\ Quiet
    /\ \E f \in Range(environs[e].Files) : tree[p][f] # NoFile
    /\ tree' = [tree EXCEPT ![p] = [f \in Paths |->
                    IF f \in Range(environs[e].Files) THEN NoFile ELSE tree[p][f]]]
    /\ UNCHANGED <<batch, kind, environs, top, store, refs, pc, ret, cur, last, budget>>

UserSetRef(p, e, content) ==
    /\ Quiet
    /\ refs[p][environs[e].Ref] # {content}
    /\ refs' = SetRef(p, environs[e].Ref, {content})
    /\ Forget
    /\ UNCHANGED <<batch, kind, environs, top, store, tree, pc, ret, cur, budget>>

UserEditConfig(e, files) ==
    /\ Quiet
    /\ environs[e].Files # files
    /\ environs' = [environs EXCEPT ![e].Files = files]
    /\ Forget
    /\ UNCHANGED <<batch, kind, top, store, tree, refs, pc, ret, cur, budget>>

(***************************************************************************)
(* One working tree synchronised with a remote: a bare backend of any      *)
(* variant, or a Cache of it by a Local directory that holds every archive *)
(* pushed through it.  No I/O fault strikes.                               *)
(***************************************************************************)
InitSync ==
    /\ kind \in {[of |-> k, by |-> "Local"] : k \in Kinds}
    /\ top \in {"of", "cache"}
    /\ budget = 0
    /\ InitCommon

NextSync ==
    \/ \E e \in {"dev"} : PushStart("p1", e)
    \/ \E e \in {"dev"} : PullStart("p1", e)
    \/ \E f \in Paths, c \in Contents \cup {NoFile} : UserEdit("p1", f, c)
    \/ UserWipe("p1", "dev")
    \/ \E key \in DOMAIN store["of"] : UserSetRef("p1", "dev", key)
    \/ \E files \in FileLists : UserEditConfig("dev", files)
    \/ PushWriteRet("p1")
    \/ PullGetRet("p1")
    \/ BackendStep("p1")
    \/ CacheGetBy("p1")
    \/ CacheWriteOf("p1")
    \/ CacheWriteBy("p1")

SpecSync == InitSync /\ [][NextSync]_vars

(***************************************************************************)
(* C1.  Push is idempotent: a push that follows a successful push of the   *)
(* same environment, with the tracked files and the ref file as the first  *)
(* one left them, returns success, issues no remote call and writes no     *)
(* file; the first one issued one Remote.Write, or none when the ref file  *)
(* already named the archive.  So the two issue at most one in total.      *)
(***************************************************************************)
RemoteWrites(rec) == {i \in 1..Len(rec.calls) : rec.calls[i] = <<top, "Write">>}

C1_PushIdempotent ==
    [][(/\ Completes
        /\ last.op = "push" /\ last.err = nil
        /\ last'.op = "push" /\ last'.env = last.env
        /\ last'.pre.tree = last.post.tree
        /\ last'.pre.ref = last.post.ref)
       => (/\ last'.err = nil
           /\ last'.calls = <<>>
           /\ last'.wrote = {}
           /\ last'.post.ref = last'.pre.ref
           /\ Cardinality(RemoteWrites(last)) = (IF last.pre.ref = {last.key} THEN 0 ELSE 1)
           /\ Cardinality(RemoteWrites(last)) + Cardinality(RemoteWrites(last')) <= 1)]_vars

\* A push through the cache found the ref file naming the archive of the
\* working tree and returned success without a call.
C1_Witness ==
    /\ last.op = "push" /\ last.err = nil /\ last.calls = <<>> /\ last.wrote = {}
    /\ last.pre.ref = {last.key} /\ last.pre.of = {last.val}
    /\ top = "cache"

(***************************************************************************)
(* C2.  Round trip: a pull that follows a successful push of the same      *)
(* environment, with the ref file as the push left it and into a working   *)
(* tree where no tracked file exists, succeeds and leaves every tracked    *)
(* path holding the bytes it had when push read it.                        *)
(***************************************************************************)
Tracked(e) == Range(environs[e].Files)

C2_RoundTrip ==
    [][(/\ Completes
        /\ last.op = "push" /\ last.err = nil
        /\ last'.op = "pull" /\ last'.env = last.env
        /\ last'.pre.ref = last.post.ref
        /\ \A f \in Tracked(last.env) : last'.pre.tree[f] = NoFile)
       => (/\ last'.err = nil
           /\ \A f \in Tracked(last.env) : last'.post.tree[f] = last.pre.tree[f]
           /\ \A f \in Paths \ Tracked(last.env) : last'.post.tree[f] = last'.pre.tree[f])]_vars

\* A pull into a working tree without tracked files wrote both of them.
C2_Witness ==
    /\ last.op = "pull" /\ last.err = nil
    /\ Tracked(last.env) = {"a", "b"}
    /\ \A f \in Tracked(last.env) : last.pre.tree[f] = NoFile /\ last.post.tree[f] # NoFile
    /\ last.post.tree["a"] # last.post.tree["b"]
    /\ last.wrote = {"a", "b"}

(***************************************************************************)
(* C4.  Structural validation precedes any write: a pull whose fetched     *)
(* archive has entry names other than the declared tracked files returns   *)
(* an error and has created or modified no file of the working tree.       *)
(***************************************************************************)
EntryNames(bytes) == {ZipRead(bytes).File[i][1] : i \in 1..Len(ZipRead(bytes).File)}
Mismatch(rec) ==
    /\ rec.op = "pull"
    /\ ZipRead(rec.data).ok
    /\ EntryNames(rec.data) # Tracked(rec.env)

C4_ValidationPrecedesWrites ==
    Mismatch(last)
    => (/\ last.err # nil
        /\ last.wrote = {}
        /\ last.post.tree = last.pre.tree)

\* A pull fetched an archive with an entry that is no longer declared, while
\* the working tree differs from the archive.
C4_Witness ==
    /\ Mismatch(last)
    /\ Tracked(last.env) = {"a"}
    /\ EntryNames(last.data) = {"a", "b"}
    /\ \E i \in 1..Len(ZipRead(last.data).File) :
          last.pre.tree[ZipRead(last.data).File[i][1]] # ZipRead(last.data).File[i][2]

(***************************************************************************)
(* Pushes of one working tree while I/O faults strike: an operation of the *)
(* file system or of the object store fails, a write possibly part-way.    *)
(***************************************************************************)
InitPush ==
    /\ kind \in {[of |-> k, by |-> "Local"] : k \in Kinds}
    /\ top \in {"of", "cache"}
    /\ budget = MaxFaults
    /\ InitCommon

NextPush ==
    \/ \E e \in {"dev"} : PushStart("p1", e)
    \/ \E f \in Paths, c \in Contents : UserEdit("p1", f, c)
    \/ PushWriteRet("p1")
    \/ BackendWriteStep("p1")
    \/ CacheWriteOf("p1")
    \/ CacheWriteBy("p1")

SpecPush == InitPush /\ [][NextPush]_vars

\* Remote.Get(key) on remote r would find the key.
RemoteHas(r, key) == IF r = "cache" THEN Has("by", key) \/ Has("of", key) ELSE Has(r, key)

(***************************************************************************)
(* C3.  The ref file always names a stored archive: in every state reached *)
(* by pushes, each of which may fail at any step, a ref file that exists   *)
(* holds a key that Remote.Get finds.                                      *)
(***************************************************************************)
C3_RefNamesStoredArchive ==
    \A e \in DOMAIN environs :
        LET ref == refs["p1"][environs[e].Ref] IN
        ref # {} => RemoteHas(top, TrimSpace(FileOf(ref)))

(***************************************************************************)
(* C15.  A failed push changes nothing locally: a push that finds a        *)
(* tracked file missing returns an error and has issued no remote call;    *)
(* and a push that returns an error for a missing or unreadable tracked    *)
(* file or for a failed Remote.Write has written no file and leaves the    *)
(* ref file as it was.                                                     *)
(***************************************************************************)
RefWriteFailed(rec) == rec.err # nil /\ rec.err[1] = "failed to update ref file"

C15_FailedPushKeepsRef ==
    last.op = "push"
    => (/\ (\E f \in Tracked(last.env) : last.pre.tree[f] = NoFile)
           => (last.err # nil /\ last.calls = <<>>)
        /\ (last.err # nil /\ ~RefWriteFailed(last))
           => (last.wrote = {} /\ last.post.ref = last.pre.ref))

\* A push through the cache whose upload failed after Of.Write had succeeded
\* left the ref file, which named another archive, as it was.
C15_Witness ==
    /\ last.op = "push" /\ last.err # nil
    /\ last.err[1] = "failed to upload archive"
    /\ last.calls = <<<<"cache", "Write">>, <<"of", "Write">>, <<"by", "Write">>>>
    /\ last.pre.ref # {} /\ last.pre.ref # {last.key}
    /\ last.post.ref = last.pre.ref

(***************************************************************************)
(* Pulls and pushes of one working tree, against a bare backend, whose ref *)
(* file is also edited by hand or comes from elsewhere: empty, blank, a    *)
(* stored fingerprint followed by a newline, or a fingerprint the remote   *)
(* does not hold.  I/O faults strike.                                      *)
(***************************************************************************)
UnknownID == generateArchiveID(<<"unknown">>)
RefEdits == {<<>>, <<"\n">>, UnknownID} \cup {key \o <<"\n">> : key \in DOMAIN store["of"]}

InitRef ==
    /\ kind \in {[of |-> k, by |-> "Local"] : k \in Kinds}
    /\ top = "of"
    /\ budget = MaxFaults
    /\ InitCommon

NextRef ==
    \/ \E e \in {"dev"} : PushStart("p1", e)
    \/ \E e \in {"dev"} : PullStart("p1", e)
    \/ \E f \in Paths, c \in Contents : UserEdit("p1", f, c)
    \/ \E content \in RefEdits : UserSetRef("p1", "dev", content)
    \/ PushWriteRet("p1")
    \/ PullGetRet("p1")
    \/ BackendStep("p1")

SpecRef == InitRef /\ [][NextRef]_vars

(***************************************************************************)
(* C16.  Pull is fatal on an absent or empty ref: a pull that finds no ref *)
(* file, or one whose content is empty after trimming whitespace, returns  *)
(* an error, has issued no remote call and leaves the working tree alone.  *)
(***************************************************************************)
C16_AbsentOrEmptyRef ==
    (/\ last.op = "pull"
     /\ (last.pre.ref = {} \/ TrimSpace(FileOf(last.pre.ref)) = <<>>))
    => (/\ last.err # nil
        /\ last.calls = <<>>
        /\ last.post.tree = last.pre.tree)

(***************************************************************************)
(* C17.  Pull is fatal on an unknown version: when Remote.Get for the      *)
(* trimmed ref has returned an error, not-found or any other, pull returns *)
(* it as a download error and has created or modified no file.             *)
(***************************************************************************)
C17_UnknownVersion ==
    [][\A p \in Procs :
          (At(p, "pull_get") /\ ret[p].err # nil /\ pc'[p] # pc[p])
          => (/\ last'.op = "pull" /\ last'.p = p
              /\ last'.err = Wrap("failed to download ZIP", ret[p].err)
              /\ last'.wrote = {}
              /\ last'.post.tree = last'.pre.tree
              /\ tree' = tree)]_vars

\* A pull whose ref names a fingerprint the remote does not hold failed on
\* the not-found of S3 and left the working tree, which held files, alone.
C17_Witness ==
    /\ last.op = "pull" /\ last.key = UnknownID
    /\ last.err = Wrap("failed to download ZIP", NotFound("S3"))
    /\ kind["of"] = "S3" /\ ~last.flt
    /\ last.wrote = {} /\ last.post.tree = last.pre.tree
    /\ \A f \in Paths : last.pre.tree[f] # NoFile

(***************************************************************************)
(* Two processes, each in its own checkout holding the same tracked-file   *)
(* contents, push to one shared backend; their steps interleave.  No I/O   *)
(* fault strikes.                                                          *)
(***************************************************************************)
InitConc ==
    /\ kind \in {[of |-> k, by |-> "Local"] : k \in Kinds}
    /\ top = "of"
    /\ budget = 0
    /\ environs = [dev |-> [Files |-> <<"a", "b">>, Ref |-> "dev.hash"]]
    /\ refs = [p \in Procs |-> [r \in RefPaths |-> {}]]
    /\ store = [b \in Backends |-> <<>>]
    /\ \E t \in [Paths -> Contents] : tree = [p \in Procs |-> t]
    /\ pc = [p \in Procs |-> <<>>]
    /\ ret = [p \in Procs |-> OK]
    /\ cur = [p \in Procs |-> Idle]
    /\ last = Idle
    /\ batch = [p \in Procs |-> NoBatch]

NextConc ==
    \E p \in Procs :
        \/ \E e \in {"dev"} : PushStart(p, e)
        \/ PushWriteRet(p)
        \/ BackendWriteStep(p)

SpecConc == InitConc /\ [][NextConc]_vars

(***************************************************************************)
(* C8.  Concurrent pushes are safe: every push that returns success has    *)
(* left the complete archive stored under its fingerprint at the moment it *)
(* returns.                                                                *)
(***************************************************************************)
C8_ConcurrentPushes ==
    (last.op = "push" /\ last.err = nil) => last.post.of = {last.val}

(***************************************************************************)
(* The diff renderer (diffZips in main.go).  What it prints is a sequence  *)
(* of lines, a line a tuple of its parts.  The file contents of the model  *)
(* hold no newline: strings.Split gives the one line.                      *)
(***************************************************************************)
NameOrder == <<"a", "b">>                     \* the entry names, ascending
Pos(name) == CHOOSE i \in 1..Len(NameOrder) : NameOrder[i] = name
Less(x, y) == Pos(x) < Pos(y)

RECURSIVE Insert(_, _)
Insert(sorted, x) ==
    IF sorted = <<>> THEN <<x>>
    ELSE IF Less(x, Head(sorted)) THEN <<x>> \o sorted
    ELSE <<Head(sorted)>> \o Insert(Tail(sorted), x)

\* sort.Strings left out: the list stays in the order the names were met.
sortStringsNone(list) == list

RECURSIVE sortStrings(_)
sortStrings(list) ==
    IF list = <<>> THEN <<>> ELSE Insert(sortStrings(Tail(list)), Head(list))

\* The map name -> entry built from zipReader.File: a later entry of a name
\* replaces an earlier one.
FileMap(File) ==
    [name \in {File[i][1] : i \in 1..Len(File)} |->
        File[CHOOSE i \in 1..Len(File) :
                /\ File[i][1] = name
                /\ \A j \in 1..Len(File) : File[j][1] = name => j <= i][2]]

\* The keys of allFiles in an order the map may be ranged in: as first met.
RECURSIVE Keys(_, _)
Keys(File, seen) ==
    IF File = <<>> THEN <<>>
    ELSE IF Head(File)[1] \in seen THEN Keys(Tail(File), seen)
    ELSE <<Head(File)[1]>> \o Keys(Tail(File), seen \cup {Head(File)[1]})

Lines(content) == <<content>>                 \* strings.Split(content, "\n")

\* patience.UnifiedDiffTextWithOptions over two one-line contents that differ
unidiff(name, fromContent, toContent, fromLabel, toLabel) ==
    <<<<"---", name, fromLabel>>, <<"+++", name, toLabel>>, <<"@@", "-1", "+1">>,
      <<"-", Lines(fromContent)[1]>>, <<"+", Lines(toContent)[1]>>>>

\* diffZips that prints the headers of a file whose two sides are equal.
diffBothNoisy(name, fromContent, toContent, fromLabel, toLabel) ==
    IF fromContent # toContent
    THEN unidiff(name, fromContent, toContent, fromLabel, toLabel)
    ELSE <<<<"---", name, fromLabel>>, <<"+++", name, toLabel>>>>

\* diffZips, "Both exist, compare contents"
diffBoth(name, fromContent, toContent, fromLabel, toLabel) ==
    IF fromContent # toContent
    THEN unidiff(name, fromContent, toContent, fromLabel, toLabel)
    ELSE <<>>

RECURSIVE diffEach(_, _, _, _, _)
diffEach(fileList, fromFiles, toFiles, fromLabel, toLabel) ==
    IF fileList = <<>> THEN <<>>
    ELSE LET fileName == Head(fileList)
             fromExists == fileName \in DOMAIN fromFiles
             toExists == fileName \in DOMAIN toFiles
             block ==
                 IF ~fromExists /\ toExists
                 THEN <<<<"!!! file", fileName, "only in", toLabel>>>>
                 ELSE IF fromExists /\ ~toExists
                 THEN <<<<"!!! file", fileName, "only in", fromLabel>>>>
                 ELSE diffBoth(fileName, fromFiles[fileName], toFiles[fileName],
                               fromLabel, toLabel)
         IN block \o diffEach(Tail(fileList), fromFiles, toFiles, fromLabel, toLabel)

fileListOf(fromZipData, toZipData) ==
    sortStrings(Keys(ZipRead(fromZipData).File \o ZipRead(toZipData).File, {}))

diffZips(fromZipData, toZipData, fromLabel, toLabel) ==
    IF ~ZipRead(fromZipData).ok
    THEN [err |-> <<"failed to read 'from' ZIP">>, out |-> <<>>]
    ELSE IF ~ZipRead(toZipData).ok
    THEN [err |-> <<"failed to read 'to' ZIP">>, out |-> <<>>]
    ELSE [err |-> nil,
          out |-> diffEach(fileListOf(fromZipData, toZipData),
                           FileMap(ZipRead(fromZipData).File),
                           FileMap(ZipRead(toZipData).File), fromLabel, toLabel)]

(***************************************************************************)
(* diff of one environment (diffEnviron in main.go).  A source is a text:  *)
(* nil when the flag is not given, else an archive ID or the path of a ref *)
(* file.  The record of a diff keeps the two flags in args, the ID of the  *)
(* 'from' side in key and its archive in data, the archive of the 'to'     *)
(* side in val, the keys of its Remote.Get calls in gets, and what         *)
(* diffZips returned and printed in diff.                                  *)
(***************************************************************************)
isArchiveID(s) == Len(s) = HashLen /\ Range(s) \cap Whitespace = {}

\* os.ReadFile of a path of the working tree
ReadFile(p, path) ==
    IF Len(path) = 1 /\ path[1] \in RefPaths THEN refs[p][path[1]]
    ELSE IF Len(path) = 1 /\ path[1] \in Paths /\ tree[p][path[1]] # NoFile
    THEN {<<tree[p][path[1]]>>}
    ELSE {}

readRefFile(p, path) ==
    LET content == ReadFile(p, path) IN
    IF content = {}
    THEN Failed(<<"failed to read ref file">> \o path \o <<"ENOENT">>)
    ELSE IF TrimSpace(FileOf(content)) = <<>>
    THEN Failed(<<"ref file">> \o path \o <<"is empty">>)
    ELSE [err |-> nil, data |-> TrimSpace(FileOf(content))]

\* getZipFromSource up to its Remote.Get: the archive ID the source names
archiveIDOf(p, source) ==
    IF isArchiveID(source) THEN [err |-> nil, data |-> source] ELSE readRefFile(p, source)

LabelLen == HashLen \div 3                    \* 12 of the 43 characters of an ID
Local == " (local)"
shortLabel(label) ==
    IF Len(label) > LabelLen /\ label[Len(label)] # Local THEN Prefix(label, LabelLen)
    ELSE label

DiffStart(p, e, from, to) ==
    /\ ~Busy(p)
    /\ e \in DOMAIN environs
    /\ LET env == environs[e]
           ref == refs[p][env.Ref]
           early == [NewOp(p, "diff", e, nil, nil, <<>>, tree[p], ref)
                        EXCEPT !.args = <<from, to>>]
           fromSource == IF from = nil THEN readRefFile(p, <<env.Ref>>)
                         ELSE [err |-> nil, data |-> from]
           fromID == archiveIDOf(p, fromSource.data)
           stop(err) == /\ End(p, Finished(early, err, nil, tree[p], ref, store))
                        /\ UNCHANGED pc
       IN
       \/ /\ from = nil /\ ref # {} /\ CanFault
          /\ End(p, Finished([early EXCEPT !.flt = TRUE],
                             <<"failed to read ref file", env.Ref, "EIO">>,
                             nil, tree[p], ref, store))
          /\ budget' = budget - 1
          /\ UNCHANGED pc
       \/ /\ fromSource.err # nil
          /\ stop(fromSource.err)
          /\ UNCHANGED budget
       \/ /\ fromSource.err = nil /\ fromID.err # nil
          /\ stop(Wrap("failed to get 'from' source", fromID.err))
          /\ UNCHANGED budget
       \/ /\ fromSource.err = nil /\ fromID.err = nil
          /\ pc' = [pc EXCEPT ![p] = RemoteGet(top, fromID.data) \o
                                     <<Frame("diff_from", e, fromID.data, to)>>]
          /\ Begin(p, [early EXCEPT !.key = fromID.data, !.calls = CallLog(top, "Get"),
                                    !.gets = <<fromID.data>>,
                                    !.pre = Snap(tree[p], ref, store, fromID.data),
                                    !.post = Snap(tree[p], ref, store, fromID.data)])
          /\ UNCHANGED <<ret, last, budget>>
    /\ UNCHANGED <<kind, environs, top, store, tree, refs>>

\* diffEnviron when getZipFromSource has returned the 'from' side
DiffFromRet(p) ==
    /\ At(p, "diff_from")
    /\ LET f == Top(p)
           env == environs[f.r]
           ref == refs[p][env.Ref]
           to == f.val
           toZip == getLocalZipData(env.Files, tree[p])
           toID == archiveIDOf(p, to)
           stop(err) == /\ End(p, Finished(cur[p], err, ret[p].data, tree[p], ref, store))
                        /\ pc' = [pc EXCEPT ![p] = <<>>]
       IN
       \/ /\ ret[p].err # nil
          /\ stop(<<"failed to get 'from' source", "failed to download archive">>
                  \o ret[p].err)
       \/ /\ ret[p].err = nil /\ to = nil /\ toZip.err # nil
          /\ stop(toZip.err)
       \/ /\ ret[p].err = nil /\ to = nil /\ toZip.err = nil
          /\ LET d == diffZips(ret[p].data, toZip.data, shortLabel(f.key),
                               shortLabel(generateArchiveID(toZip.data) \o <<Local>>))
             IN /\ End(p, Finished([cur[p] EXCEPT !.val = toZip.data, !.diff = d],
                                   d.err, ret[p].data, tree[p], ref, store))
                /\ pc' = [pc EXCEPT ![p] = <<>>]
       \/ /\ ret[p].err = nil /\ to # nil /\ toID.err # nil
          /\ stop(Wrap("failed to get 'to' source", toID.err))
       \/ /\ ret[p].err = nil /\ to # nil /\ toID.err = nil
          /\ pc' = [pc EXCEPT ![p] = RemoteGet(top, toID.data) \o
                                     <<Frame("diff_to", f.r, toID.data, ret[p].data)>>]
          /\ cur' = [cur EXCEPT ![p].calls = @ \o CallLog(top, "Get"),
                                ![p].gets = Append(@, toID.data),
                                ![p].data = ret[p].data]
          /\ UNCHANGED <<ret, last, batch>>
    /\ UNCHANGED <<kind, environs, top, store, tree, refs, budget>>

\* diffEnviron that, given a 'to' version, records it in the ref file.
DiffToRetStoresRef(p) ==
    /\ At(p, "diff_to")
    /\ pc' = [pc EXCEPT ![p] = <<>>]
    /\ LET f == Top(p)
           env == environs[f.r]
           ref == refs[p][env.Ref]
           d == diffZips(f.val, ret[p].data, shortLabel(cur[p].key), shortLabel(f.key))
       IN
       \/ /\ ret[p].err # nil
          /\ End(p, Finished(cur[p], <<"failed to get 'to' source",
                                       "failed to download archive">> \o ret[p].err,
                             f.val, tree[p], ref, store))
          /\ UNCHANGED refs
       \/ /\ ret[p].err = nil
          /\ refs' = SetRef(p, env.Ref, {f.key})
          /\ End(p, Finished([cur[p] EXCEPT !.val = ret[p].data, !.diff = d],
                             d.err, f.val, tree[p], {f.key}, store))
    /\ UNCHANGED <<kind, environs, top, store, tree, budget>>

\* diffEnviron when getZipFromSource has returned the 'to' side
DiffToRet(p) ==
    /\ At(p, "diff_to")
    /\ pc' = [pc EXCEPT ![p] = <<>>]
    /\ LET f == Top(p)
           env == environs[f.r]
           ref == refs[p][env.Ref]
           d == diffZips(f.val, ret[p].data, shortLabel(cur[p].key), shortLabel(f.key))
       IN
       \/ /\ ret[p].err # nil
          /\ End(p, Finished(cur[p], <<"failed to get 'to' source",
                                       "failed to download archive">> \o ret[p].err,
                             f.val, tree[p], ref, store))
       \/ /\ ret[p].err = nil
          /\ End(p, Finished([cur[p] EXCEPT !.val = ret[p].data, !.diff = d],
                             d.err, f.val, tree[p], ref, store))
    /\ UNCHANGED <<kind, environs, top, store, tree, refs, budget>>

(***************************************************************************)
(* pullAll, pushAll and diffAll (main.go): the named environments in list  *)
(* order; a name that is not registered, or an operation that fails, ends  *)
(* the batch with that error.  batch[p] keeps the names, the names still   *)
(* to do, the outcome of every operation run, and the working tree and ref *)
(* files the batch started from.                                           *)
(***************************************************************************)
envNotFound(name) == <<"environment", name, "not found">>

BatchStart(p, op, names) ==
    /\ \A q \in Procs : ~Busy(q) /\ ~batch[q].run
    /\ batch' = [batch EXCEPT ![p] = [op |-> op, names |-> names, todo |-> names,
                                      log |-> <<>>, err |-> nil, run |-> TRUE,
                                      tree |-> tree[p], refs |-> refs[p]]]
    /\ UNCHANGED <<kind, environs, top, store, tree, refs, pc, ret, cur, last, budget>>

BatchNext(p) ==
    /\ batch[p].run
    /\ ~Busy(p)
    /\ LET b == batch[p]
           name == Head(b.todo)
       IN
       IF name \notin DOMAIN environs
       THEN /\ batch' = [batch EXCEPT ![p].err = envNotFound(name), ![p].run = FALSE]
            /\ UNCHANGED <<kind, environs, top, store, tree, refs, pc, ret, cur, last, budget>>
       ELSE \/ b.op = "pull" /\ PullStart(p, name)
            \/ b.op = "push" /\ PushStart(p, name)
            \/ b.op = "diff" /\ DiffStart(p, name, nil, nil)

\* Between two invocations of the program the user edits tracked files.
BatchEdit(p, f, c) ==
    /\ \A q \in Procs : ~batch[q].run
    /\ UserEdit(p, f, c)

BatchOps == {"pull", "push", "diff"}
BatchNames ==
    {<<"dev">>, <<"dev", "prod">>, <<"prod", "dev">>, <<"ghost", "dev">>,
     <<"dev", "ghost", "prod">>}

InitBatch ==
    /\ kind \in {[of |-> k, by |-> "Local"] : k \in Kinds}
    /\ top = "of"
    /\ budget = 0
    /\ environs = [dev |-> [Files |-> <<"a">>, Ref |-> "dev.hash"],
                   prod |-> [Files |-> <<"b">>, Ref |-> "prod.hash"]]
    /\ refs = [p \in Procs |-> [r \in RefPaths |-> {}]]
    /\ store = [b \in Backends |-> <<>>]
    /\ tree = [p \in Procs |-> [f \in Paths |-> NoFile]]
    /\ pc = [p \in Procs |-> <<>>]
    /\ ret = [p \in Procs |-> OK]
    /\ cur = [p \in Procs |-> Idle]
    /\ last = Idle
    /\ batch = [p \in Procs |-> NoBatch]

NextBatch ==
    \/ \E op \in BatchOps, names \in BatchNames : BatchStart("p1", op, names)
    \/ BatchNext("p1")
    \/ \E f \in Paths, c \in Contents \cup {NoFile} : BatchEdit("p1", f, c)
    \/ PushWriteRet("p1")
    \/ PullGetRet("p1")
    \/ DiffFromRet("p1")
    \/ BackendStep("p1")

SpecBatch == InitBatch /\ [][NextBatch]_vars

(***************************************************************************)
(* C18.  A batch is sequential and aborts on the first failure: the        *)
(* operations run are those of the names in list order, one at a time;     *)
(* only the last one run can have failed, and it ends the batch; a batch   *)
(* that ended in error stopped at an unregistered name or at the failed    *)
(* operation, one that ended well ran them all; and the environments       *)
(* further down the list have their tracked files and ref file as the      *)
(* batch found them.                                                       *)
(***************************************************************************)
Untouched(p, b, e) ==
    /\ refs[p][environs[e].Ref] = b.refs[environs[e].Ref]
    /\ \A f \in Range(environs[e].Files) : tree[p][f] = b.tree[f]

BatchInOrder(p) ==
    LET b == batch[p]
        k == Len(b.log)
        n == Len(b.names)
        \* the position the batch is at: the operation running or run last,
        \* or the unregistered name
        at == IF k < n /\ (b.run \/ b.err # nil) /\ (k = 0 \/ b.log[k].err = nil)
              THEN k + 1 ELSE k
    IN
    b.op # "none"
    => (/\ k <= n
        /\ \A i \in 1..k : b.log[i].name = b.names[i]
        /\ \A i \in 1..(k - 1) : b.log[i].err = nil
        /\ (k > 0 /\ b.log[k].err # nil) => (~b.run /\ b.err # nil)
        /\ (b.run /\ Busy(p)) => cur[p].env = b.names[k + 1]
        /\ ~b.run => (IF b.err = nil
                      THEN k = n /\ \A i \in 1..k : b.log[i].err = nil
                      ELSE \/ k > 0 /\ b.log[k].err # nil
                           \/ k < n /\ b.names[k + 1] \notin DOMAIN environs)
        /\ \A j \in (at + 1)..n :
              b.names[j] \in DOMAIN environs => Untouched(p, b, b.names[j]))

C18_BatchSequential ==
    [][\A p \in Procs :
          (batch'[p] # batch[p] \/ batch'[p].run) => BatchInOrder(p)']_vars

\* A pushAll of dev, prod whose push of dev uploaded and whose push of prod
\* failed, and a pullAll that stopped at its first name, the later
\* environment registered.
C18_Witness ==
    LET b == batch["p1"] IN
    /\ ~b.run /\ b.err # nil /\ b.op = "push"
    /\ b.names = <<"dev", "prod">>
    /\ Len(b.log) = 2 /\ b.log[1].err = nil /\ b.log[1].wrote = {"dev.hash"}
    /\ b.log[2].err # nil

(***************************************************************************)
(* C19.  Every error a batch returns carries the operation, the name of    *)
(* the offending environment and the underlying cause.                     *)
(***************************************************************************)
C19_ErrorContext ==
    \A p \in Procs :
        LET b == batch[p]
            k == Len(b.log)
            offending == IF k > 0 /\ b.log[k].err # nil THEN b.names[k] ELSE b.names[k + 1]
        IN
        (b.op # "none" /\ ~b.run /\ b.err # nil)
        => (/\ b.op \in Range(b.err)
            /\ offending \in Range(b.err)
            /\ Len(b.err) >= 3)

(***************************************************************************)
(* The configuration file calls environ(name, remote, files, ref) once per *)
(* declaration (environ in main.go); an error of a call ends the load.     *)
(* Here an entry of the registry also carries the remote it was declared   *)
(* with.  last records the call: the name, the declared tuple, the error.  *)
(***************************************************************************)
Declared(remote, files, ref) == [Remote |-> remote, Files |-> files, Ref |-> ref]

environCall(name, tuple, err) ==
    [Idle EXCEPT !.op = "environ", !.p = "p1", !.env = name, !.val = tuple, !.err = err,
                 !.seq = 1 - last.seq]

LoadFailed == last.op = "environ" /\ last.err # nil

\* environ that assigns without looking the name up.
environOverwrite(name, remote, files, ref, unpacked) ==
    /\ ~LoadFailed
    /\ IF ~unpacked
       THEN /\ last' = environCall(name, nil, <<"environ", "UnpackArgs">>)
            /\ UNCHANGED environs
       ELSE /\ environs' = [n \in DOMAIN environs \cup {name} |->
                               IF n = name THEN Declared(remote, files, ref) ELSE environs[n]]
            /\ last' = environCall(name, Declared(remote, files, ref), nil)
    /\ UNCHANGED <<batch, kind, top, store, tree, refs, pc, ret, cur, budget>>

environ(name, remote, files, ref, unpacked) ==
    /\ ~LoadFailed
    /\ IF ~unpacked
       THEN /\ last' = environCall(name, nil, <<"environ", "UnpackArgs">>)
            /\ UNCHANGED environs
       ELSE IF name \in DOMAIN environs
       THEN /\ last' = environCall(name, Declared(remote, files, ref),
                                   <<"environ", name, "declared multiple times">>)
            /\ UNCHANGED environs
       ELSE /\ environs' = [n \in DOMAIN environs \cup {name} |->
                               IF n = name THEN Declared(remote, files, ref) ELSE environs[n]]
            /\ last' = environCall(name, Declared(remote, files, ref), nil)
    /\ UNCHANGED <<batch, kind, top, store, tree, refs, pc, ret, cur, budget>>

EnvNames == {"dev", "prod", "stage"}
Remotes == {"of", "cache"}

InitConfig ==
    /\ kind \in {[of |-> k, by |-> "Local"] : k \in Kinds}
    /\ top = "of"
    /\ budget = 0
    /\ environs = <<>>
    /\ refs = [p \in Procs |-> [r \in RefPaths |-> {}]]
    /\ store = [b \in Backends |-> <<>>]
    /\ tree = [p \in Procs |-> [f \in Paths |-> NoFile]]
    /\ pc = [p \in Procs |-> <<>>]
    /\ ret = [p \in Procs |-> OK]
    /\ cur = [p \in Procs |-> Idle]
    /\ last = Idle
    /\ batch = [p \in Procs |-> NoBatch]

NextConfig ==
    \E name \in EnvNames, remote \in Remotes, files \in FileLists, ref \in RefPaths,
       unpacked \in BOOLEAN :
        environ(name, remote, files, ref, unpacked)

SpecConfig == InitConfig /\ [][NextConfig]_vars

(***************************************************************************)
(* C20.  Duplicate registration is rejected: a call of environ under a     *)
(* name already in the registry returns an error and leaves the registry   *)
(* as it was; a call never changes the entry of a name registered before,  *)
(* and a name it adds maps to the tuple of that call, so every name maps   *)
(* to the tuple of its first registration.                                 *)
(***************************************************************************)
C20_DuplicateRejected ==
    [][(Completes /\ last'.op = "environ")
       => (/\ \A n \in DOMAIN environs :
                 n \in DOMAIN environs' /\ environs'[n] = environs[n]
           /\ last'.env \in DOMAIN environs => (last'.err # nil /\ environs' = environs)
           /\ last'.err # nil => environs' = environs
           /\ (last'.env \notin DOMAIN environs /\ last'.err = nil)
                 => (/\ DOMAIN environs' = DOMAIN environs \cup {last'.env}
                     /\ environs'[last'.env] = last'.val))]_vars

\* dev declared, then prod, then dev once more with another remote, file
\* list and ref path: the call failed and dev is as first declared.
C20_Witness ==
    /\ last.op = "environ" /\ last.env = "dev"
    /\ last.err = <<"environ", "dev", "declared multiple times">>
    /\ DOMAIN environs = {"dev", "prod"}
    /\ environs["dev"].Remote # last.val.Remote
    /\ environs["dev"].Files # last.val.Files
    /\ environs["dev"].Ref # last.val.Ref

(***************************************************************************)
(* diff -from ID -to ID over a remote that holds every archive of at most  *)
(* two entries with distinct names, in either entry order, and one blob    *)
(* that is no archive.                                                     *)
(***************************************************************************)
Entries == {<<name, content>> : name \in Paths, content \in Contents}
EntryLists ==
    {<<>>} \cup {<<e>> : e \in Entries}
    \cup {<<pr[1], pr[2]>> : pr \in {q \in Entries \X Entries : q[1][1] # q[2][1]}}
Truncated == <<"a", ContentPool[1]>>          \* an archive cut before its end record
Blobs == {ZipWrite(es) : es \in EntryLists} \cup {Truncated}
AllStored == [id \in {generateArchiveID(z) : z \in Blobs} |->
                 CHOOSE z \in Blobs : generateArchiveID(z) = id]

InitDiffZips ==
    /\ kind \in {[of |-> k, by |-> "Local"] : k \in Kinds}
    /\ top = "of"
    /\ budget = 0
    /\ environs = [dev |-> [Files |-> <<"a", "b">>, Ref |-> "dev.hash"]]
    /\ refs = [p \in Procs |-> [r \in RefPaths |-> {}]]
    /\ store = [b \in Backends |-> IF b = "of" THEN AllStored ELSE <<>>]
    /\ tree = [p \in Procs |-> [f \in Paths |-> NoFile]]
    /\ pc = [p \in Procs |-> <<>>]
    /\ ret = [p \in Procs |-> OK]
    /\ cur = [p \in Procs |-> Idle]
    /\ last = Idle
    /\ batch = [p \in Procs |-> NoBatch]

NextDiffZips ==
    \/ \E from \in DOMAIN store["of"], to \in DOMAIN store["of"] :   \* one invocation
          last = Idle /\ DiffStart("p1", "dev", from, to)
    \/ DiffFromRet("p1")
    \/ DiffToRet("p1")
    \/ BackendRead("p1")

SpecDiffZips == InitDiffZips /\ [][NextDiffZips]_vars

\* The labels diffEnviron hands to diffZips, and what diffZips was given.
FromLabel(rec) == shortLabel(rec.key)
ToLabel(rec) ==
    IF rec.args[2] = nil THEN shortLabel(generateArchiveID(rec.val) \o <<Local>>)
    ELSE shortLabel(rec.gets[2])
Rendered(rec) ==
    /\ rec.op = "diff" /\ rec.done
    /\ rec.err = nil
    /\ ZipRead(rec.data).ok /\ ZipRead(rec.val).ok
ContentIn(bytes, name) == FileMap(ZipRead(bytes).File)[name]
Printed(rec) == Range(rec.diff.out)

(***************************************************************************)
(* C21.  Diff on pure addition: for every entry name present only in the   *)
(* 'to' archive the output holds the marker "!!! file <name> only in       *)
(* <toLabel>", the header "--- <name> (<fromLabel>)" and every line of the *)
(* entry's content as a "+" line.                                          *)
(***************************************************************************)
C21_PureAddition ==
    Rendered(last)
    => \A name \in EntryNames(last.val) \ EntryNames(last.data) :
          /\ <<"!!! file", name, "only in", ToLabel(last)>> \in Printed(last)
          /\ <<"---", name, FromLabel(last)>> \in Printed(last)
          /\ \A i \in 1..Len(Lines(ContentIn(last.val, name))) :
                <<"+", Lines(ContentIn(last.val, name))[i]>> \in Printed(last)

(***************************************************************************)
(* C22.  Diff on pure deletion: for every entry name present only in the   *)
(* 'from' archive the output holds the marker "!!! file <name> only in     *)
(* <fromLabel>", the header "--- <name> (<fromLabel>)" and every line of   *)
(* the entry's content as a "-" line.                                      *)
(***************************************************************************)
C22_PureDeletion ==
    Rendered(last)
    => \A name \in EntryNames(last.data) \ EntryNames(last.val) :
          /\ <<"!!! file", name, "only in", FromLabel(last)>> \in Printed(last)
          /\ <<"---", name, FromLabel(last)>> \in Printed(last)
          /\ \A i \in 1..Len(Lines(ContentIn(last.data, name))) :
                <<"-", Lines(ContentIn(last.data, name))[i]>> \in Printed(last)

(***************************************************************************)
(* C23.  diffZips returns a boolean 'changed' next to its error, and it is *)
(* true whenever some entry name is in exactly one of the two archives.    *)
(***************************************************************************)
C23_ReportsChanged ==
    (/\ Rendered(last)
     /\ EntryNames(last.data) # EntryNames(last.val))
    => ("changed" \in DOMAIN last.diff /\ last.diff["changed"] = TRUE)

(***************************************************************************)
(* C25.  Diff output order is deterministic: the names diffZips prints a   *)
(* block for come in ascending order, each once, and they are the names of *)
(* the union of the two archives that are on one side only or differ; the  *)
(* output is the same whatever the order of the entries inside either      *)
(* archive.                                                                *)
(***************************************************************************)
Reverse(seq) == [i \in 1..Len(seq) |-> seq[Len(seq) + 1 - i]]
Reordered(bytes) == ZipWrite(Reverse(ZipRead(bytes).File))
Named(out) == SelectSeq(out, LAMBDA line : line[1] \in {"!!! file", "---"})
Differing(rec) ==
    {name \in EntryNames(rec.data) \cup EntryNames(rec.val) :
        \/ name \notin EntryNames(rec.data)
        \/ name \notin EntryNames(rec.val)
        \/ ContentIn(rec.data, name) # ContentIn(rec.val, name)}

C25_DeterministicOrder ==
    Rendered(last)
    => LET named == Named(last.diff.out) IN
       /\ \A i \in 1..(Len(named) - 1) : Less(named[i][2], named[i + 1][2])
       /\ {named[i][2] : i \in 1..Len(named)} = Differing(last)
       /\ \A f \in {last.data, Reordered(last.data)}, t \in {last.val, Reordered(last.val)} :
             diffZips(f, t, FromLabel(last), ToLabel(last)) = last.diff

\* b only in 'from', listed first there, and a differing: two blocks.
C25_Witness ==
    /\ Rendered(last)
    /\ Len(ZipRead(last.data).File) = 2
    /\ ZipRead(last.data).File[1][1] = "b"
    /\ EntryNames(last.val) = {"a"}
    /\ ContentIn(last.val, "a") # ContentIn(last.data, "a")
    /\ Len(Named(last.diff.out)) = 2

(***************************************************************************)
(* C26.  Identical entries are silent: a name in both archives with equal  *)
(* bytes gets no line, so the output is one marker for each name on one    *)
(* side only and one unified-diff block for each name whose bytes differ;  *)
(* the diff of an archive against itself prints nothing and returns no     *)
(* error.                                                                  *)
(***************************************************************************)
Same(rec) ==
    {name \in EntryNames(rec.data) \cap EntryNames(rec.val) :
        ContentIn(rec.data, name) = ContentIn(rec.val, name)}
OneSided(rec) ==
    (EntryNames(rec.data) \ EntryNames(rec.val)) \cup (EntryNames(rec.val) \ EntryNames(rec.data))

C26_IdenticalSilent ==
    (/\ last.op = "diff" /\ last.done
     /\ last.data # nil /\ ZipRead(last.data).ok /\ last.val # nil /\ ZipRead(last.val).ok)
    => (/\ last.err = nil
        /\ \A i \in 1..Len(last.diff.out) :
              Len(last.diff.out[i]) >= 2 => last.diff.out[i][2] \notin Same(last)
        /\ Len(last.diff.out) =
              Cardinality(OneSided(last)) + 5 * Cardinality(Differing(last) \ OneSided(last))
        /\ last.data = last.val => last.diff.out = <<>>)

\* An archive of two entries against itself, and one against an archive that
\* shares one entry with it.
C26_Witness ==
    /\ Rendered(last)
    /\ Len(ZipRead(last.data).File) = 2
    /\ last.data = last.val
    /\ last.diff.out = <<>>

(***************************************************************************)
(* diff [-from source] [-to source] of dev or prod in a working tree whose *)
(* ref files hold an archive ID, the path of the other ref file, blank or  *)
(* other text, over a remote that holds the archives of AllStored: the     *)
(* backend itself, or a Cache over it whose By is an empty Local.          *)
(***************************************************************************)
DevID == generateArchiveID(ZipWrite(<<<<"a", ContentPool[1]>>>>))
ProdID == generateArchiveID(ZipWrite(<<<<"b", ContentPool[2]>>>>))
DiffRefEdits == {<<"\n">>, DevID \o <<"\n">>, <<"prod.hash">>, <<"garbage">>}
DiffSources == {nil, DevID, ProdID, UnknownID, <<"prod.hash">>, <<"nofile">>}

InitDiff ==
    /\ kind \in {[of |-> k, by |-> "Local"] : k \in Kinds}
    /\ top \in {"of", "cache"}
    /\ budget = 0
    /\ environs = [dev |-> [Files |-> <<"a">>, Ref |-> "dev.hash"],
                   prod |-> [Files |-> <<"b">>, Ref |-> "prod.hash"]]
    /\ refs = [p \in Procs |-> [r \in RefPaths |-> {}]]
    /\ store = [b \in Backends |-> IF b = "of" THEN AllStored ELSE <<>>]
    /\ tree = [p \in Procs |-> [f \in Paths |-> NoFile]]
    /\ pc = [p \in Procs |-> <<>>]
    /\ ret = [p \in Procs |-> OK]
    /\ cur = [p \in Procs |-> Idle]
    /\ last = Idle
    /\ batch = [p \in Procs |-> NoBatch]

NextDiff ==
    \/ \E e \in {"dev", "prod"}, from \in DiffSources, to \in DiffSources :
          last = Idle /\ DiffStart("p1", e, from, to)
    \/ \E f \in Paths, c \in Contents : last = Idle /\ UserEdit("p1", f, c)
    \/ \E e \in {"dev", "prod"}, content \in DiffRefEdits :
          last = Idle /\ UserSetRef("p1", e, content)
    \/ DiffFromRet("p1")
    \/ DiffToRet("p1")
    \/ BackendRead("p1")
    \/ CacheGetBy("p1")
    \/ CacheGetOf("p1")
    \/ CacheGetPop("p1")
    \/ LocalOpen("p1")
    \/ FileWrite("p1")

SpecDiff == InitDiff /\ [][NextDiff]_vars

(***************************************************************************)
(* C24.  Diff source resolution: with 'from' omitted diff issues           *)
(* Remote.Get(k), k the trimmed content of the environment's ref file, for *)
(* every non-empty trimmed content; an explicit source that is an archive  *)
(* ID is the key, any other explicit source is read as the path of a ref   *)
(* file; with 'to' omitted the 'to' side is the archive of the working     *)
(* tree and no Remote.Get is issued for it.                                *)
(***************************************************************************)
\* The key an explicit source stands for: gets is what the diff asked the
\* remote for, at position i.
ExplicitOK(rec, source, i) ==
    IF isArchiveID(source) THEN Len(rec.gets) >= i /\ rec.gets[i] = source
    ELSE IF readRefFile(rec.p, source).err # nil THEN Len(rec.gets) < i
    ELSE Len(rec.gets) >= i /\ rec.gets[i] = readRefFile(rec.p, source).data

FromOmittedOK(rec) ==
    (/\ rec.args[1] = nil
     /\ rec.pre.ref # {} /\ TrimSpace(FileOf(rec.pre.ref)) # <<>>)
    => (rec.gets # <<>> /\ rec.gets[1] = TrimSpace(FileOf(rec.pre.ref)))

ToOmittedOK(rec) ==
    (/\ rec.args[2] = nil
     /\ rec.data # nil
     /\ getLocalZipData(environs[rec.env].Files, tree[rec.p]).err = nil)
    => (/\ Len(rec.gets) = 1 /\ Len(rec.calls) = 1
        /\ rec.val = getLocalZipData(environs[rec.env].Files, tree[rec.p]).data)

C24_SourceResolution ==
    (last.op = "diff" /\ last.done)
    => (/\ FromOmittedOK(last)
        /\ last.args[1] # nil => ExplicitOK(last, last.args[1], 1)
        /\ (last.args[2] # nil /\ last.data # nil) => ExplicitOK(last, last.args[2], 2)
        /\ ToOmittedOK(last))

(***************************************************************************)
(* C27.  Only a successful push writes the ref file: a step of the program *)
(* that creates, changes or removes a ref file is the step on which a push *)
(* that has uploaded returns success.  (A step that leaves no operation on *)
(* record is the user's.)                                                  *)
(***************************************************************************)
C27_OnlyPushWritesRef ==
    [][(refs' # refs /\ last'.op # "none")
       => (/\ Completes
           /\ last'.op = "push"
           /\ last'.err = nil
           /\ \E i \in 1..Len(last'.calls) : last'.calls[i][2] = "Write")]_vars

(***************************************************************************)
(* pull of dev (files a, or a and b) in a working tree the user edits and  *)
(* whose ref file the user sets to the ID of any stored blob, over a       *)
(* remote holding AllStored; an I/O fault may strike.                      *)
(***************************************************************************)
InitPull ==
    /\ kind \in {[of |-> k, by |-> "Local"] : k \in Kinds}
    /\ top = "of"
    /\ budget = MaxFaults
    /\ environs \in {[dev |-> [Files |-> files, Ref |-> "dev.hash"]] : files \in FileLists}
    /\ refs = [p \in Procs |-> [r \in RefPaths |-> {}]]
    /\ store = [b \in Backends |-> IF b = "of" THEN AllStored ELSE <<>>]
    /\ tree = [p \in Procs |-> [f \in Paths |-> NoFile]]
    /\ pc = [p \in Procs |-> <<>>]
    /\ ret = [p \in Procs |-> OK]
    /\ cur = [p \in Procs |-> Idle]
    /\ last = Idle
    /\ batch = [p \in Procs |-> NoBatch]

NextPull ==
    \/ PullStart("p1", "dev")
    \/ \E f \in Paths, c \in Contents \cup {NoFile} : UserEdit("p1", f, c)
    \/ \E key \in DOMAIN store["of"] : UserSetRef("p1", "dev", key \o <<"\n">>)
    \/ PullGetRet("p1")
    \/ BackendRead("p1")

SpecPull == InitPull /\ [][NextPull]_vars

(***************************************************************************)
(* C28.  Idempotent materialization: a successful pull has written a       *)
(* tracked file if and only if the file was absent or its bytes differed   *)
(* from the archive entry, the changed count it reports is the number of   *)
(* files it wrote, no other file has changed, and a pull right after a     *)
(* successful pull writes no file.                                         *)
(***************************************************************************)
C28_IdempotentMaterialization ==
    [][(Completes /\ last'.op = "pull" /\ last'.err = nil)
       => (/\ \A f \in EntryNames(last'.data) :
                 f \in last'.wrote
                 <=> (\/ last'.pre.tree[f] = NoFile
                      \/ last'.pre.tree[f] # ContentIn(last'.data, f))
           /\ last'.wrote \subseteq EntryNames(last'.data)
           /\ last'.n = Cardinality(last'.wrote)
           /\ \A f \in Paths \ last'.wrote : last'.post.tree[f] = last'.pre.tree[f]
           /\ \A f \in last'.wrote : last'.post.tree[f] = ContentIn(last'.data, f)
           /\ (last.op = "pull" /\ last.err = nil)
                 => (last'.wrote = {} /\ last'.n = 0 /\ tree' = tree))]_vars

\* A pull that found a with other bytes and b as in the archive wrote a only.
C28_Witness ==
    /\ last.op = "pull" /\ last.err = nil
    /\ environs["dev"].Files = <<"a", "b">>
    /\ last.pre.tree["a"] \notin {NoFile, ContentIn(last.data, "a")}
    /\ last.pre.tree["b"] = ContentIn(last.data, "b")
    /\ last.wrote = {"a"} /\ last.n = 1
    /\ tree["p1"]["a"] = ContentIn(last.data, "a")

(***************************************************************************)
(* Two machines, each with its own working tree, push dev one after the    *)
(* other; the declared file list is a, or a then b, or b then a.           *)
(***************************************************************************)
BuildLists == {<<"a">>, <<"a", "b">>, <<"b", "a">>}

InitBuild ==
    /\ kind \in {[of |-> k, by |-> "Local"] : k \in Kinds}
    /\ top = "of"
    /\ budget = 0
    /\ environs \in {[dev |-> [Files |-> files, Ref |-> "dev.hash"]] : files \in BuildLists}
    /\ refs = [p \in Procs |-> [r \in RefPaths |-> {}]]
    /\ store = [b \in Backends |-> <<>>]
    /\ tree \in [Procs -> [Paths -> Contents \cup {NoFile}]]
    /\ pc = [p \in Procs |-> <<>>]
    /\ ret = [p \in Procs |-> OK]
    /\ cur = [p \in Procs |-> Idle]
    /\ last = Idle
    /\ batch = [p \in Procs |-> NoBatch]

NextBuild ==
    \E p \in Procs :
        \/ Quiet /\ PushStart(p, "dev")
        \/ PushWriteRet(p)
        \/ BackendWriteStep(p)

SpecBuild == InitBuild /\ [][NextBuild]_vars

(***************************************************************************)
(* C29.  Archive building is deterministic and order-preserving: the       *)
(* archive a push builds has one entry for each declared file, in declared *)
(* order, named by the declared path and holding the file's bytes; and two *)
(* pushes over the same file list whose tracked files hold equal bytes     *)
(* build byte-identical archives with the same ID, whatever machine they   *)
(* run on and whatever else its directory holds.                           *)
(***************************************************************************)
Built(rec) == rec.op = "push" /\ rec.val # nil

C29_DeterministicArchive ==
    [][(Completes /\ Built(last'))
       => (/\ ZipRead(last'.val).ok
           /\ ZipRead(last'.val).File =
                 [i \in 1..Len(environs[last'.env].Files) |->
                     <<environs[last'.env].Files[i],
                       last'.pre.tree[environs[last'.env].Files[i]]>>]
           /\ last'.key = generateArchiveID(last'.val)
           /\ (/\ Built(last) /\ last.env = last'.env
               /\ \A f \in Tracked(last.env) : last.pre.tree[f] = last'.pre.tree[f])
                 => (last'.val = last.val /\ last'.key = last.key))]_vars

\* The second machine pushed b then a, which the first had pushed from equal
\* bytes: both ref files hold the one ID.
C29_Witness ==
    /\ Built(last) /\ last.p = "p2" /\ last.err = nil
    /\ environs["dev"].Files = <<"b", "a">>
    /\ tree["p1"]["a"] # tree["p1"]["b"]
    /\ refs["p1"]["dev.hash"] = {last.key}
    /\ refs["p2"]["dev.hash"] = {last.key}
    /\ ZipRead(last.val).File[1][1] = "b"

(***************************************************************************)
(* C30.  Only "already exists" is swallowed: the put of S3.Write or        *)
(* GCS.Write returns success exactly when the store took the object or     *)
(* answered that the key exists, and leaves the stored bytes alone in the  *)
(* second case; any other failure of the store is returned as it came.     *)
(***************************************************************************)
PutStep(p) == (At(p, "s3_put") \/ At(p, "gcs_put")) /\ pc'[p] # pc[p]
OtherFailures == S3Failures \cup GCSFailures

C30_OnlyExistsSwallowed ==
    [][\A p \in Procs :
          PutStep(p)
          => LET f == Top(p)
                 existed == Has(f.r, f.key)
                 struck == budget' # budget
             IN /\ ret'[p].err = nil <=> ~struck
                /\ struck => (ret'[p].err \in OtherFailures /\ store' = store)
                /\ (~struck /\ existed) => store' = store
                /\ (~struck /\ ~existed) => store' = Put(store, f.r, f.key, f.val)]_vars

\* S3.Write of other bytes under a key that exists returned success and left
\* the stored bytes.
C30_Witness ==
    /\ last.op = "Write" /\ kind["of"] = "S3"
    /\ last.err = nil /\ ~last.flt
    /\ last.pre.of # {} /\ last.pre.of # {last.val}
    /\ last.post.of = last.pre.of

(***************************************************************************)
(* C31.  Content addressing: every Remote.Write that push issues, and      *)
(* every backend write made for it, carries as key generateArchiveID of    *)
(* the bytes it carries; and whenever no push is under way, every key the  *)
(* remote holds is generateArchiveID of the bytes held under it.           *)
(***************************************************************************)
C31_ContentAddressed ==
    /\ \A p \in Procs : \A i \in DOMAIN pc[p] :
          pc[p][i].val # nil => pc[p][i].key = generateArchiveID(pc[p][i].val)
    /\ Quiet => \A key \in DOMAIN store["of"] :
                   key = generateArchiveID(store["of"][key])

(***************************************************************************)
(* One working tree that pushes and pulls dev, whose declared file list is *)
(* a, or a then b, or b then a.  The remote is new, or holds AllStored,    *)
(* the archives that earlier pushes of any of these lists have left.  The  *)
(* user edits the tracked files and checks out the ref file of a stored    *)
(* archive (a line: the ID and a newline); no I/O fault strikes.           *)
(***************************************************************************)
InitAgree ==
    /\ kind \in {[of |-> k, by |-> "Local"] : k \in Kinds}
    /\ top = "of"
    /\ budget = 0
    /\ environs \in {[dev |-> [Files |-> files, Ref |-> "dev.hash"]] : files \in BuildLists}
    /\ refs = [p \in Procs |-> [r \in RefPaths |-> {}]]
    /\ store \in {[b \in Backends |-> <<>>],
                  [b \in Backends |-> IF b = "of" THEN AllStored ELSE <<>>]}
    /\ tree = [p \in Procs |-> [f \in Paths |-> NoFile]]
    /\ pc = [p \in Procs |-> <<>>]
    /\ ret = [p \in Procs |-> OK]
    /\ cur = [p \in Procs |-> Idle]
    /\ last = Idle
    /\ batch = [p \in Procs |-> NoBatch]

NextAgree ==
    \/ PushStart("p1", "dev")
    \/ PullStart("p1", "dev")
    \/ \E f \in Paths, c \in Contents \cup {NoFile} : UserEdit("p1", f, c)
    \/ \E key \in DOMAIN store["of"] : UserSetRef("p1", "dev", key \o <<"\n">>)
    \/ PushWriteRet("p1")
    \/ PullGetRet("p1")
    \/ BackendStep("p1")

SpecAgree == InitAgree /\ [][NextAgree]_vars

(***************************************************************************)
(* C32.  Tree, ref and remote agree after a successful sync: right after a *)
(* successful push, and right after a successful pull of an archive whose  *)
(* entries are the declared files in declared order, the ID of the archive *)
(* built from the working tree is the trimmed content of the ref file, and *)
(* the remote holds that key.                                              *)
(***************************************************************************)
InDeclaredOrder(bytes, files) ==
    [i \in 1..Len(ZipRead(bytes).File) |-> ZipRead(bytes).File[i][1]] = files

Agree(p, e) ==
    LET env == environs[e]
        z == getLocalZipData(env.Files, tree[p])
        ref == refs[p][env.Ref]
    IN /\ z.err = nil
       /\ ref # {}
       /\ generateArchiveID(z.data) = TrimSpace(FileOf(ref))
       /\ RemoteHas(top, generateArchiveID(z.data))

C32_SyncAgreement ==
    [][(/\ Completes /\ last'.err = nil
        /\ \/ last'.op = "push"
           \/ /\ last'.op = "pull"
              /\ InDeclaredOrder(last'.data, environs[last'.env].Files))
       => \E p \in Procs, e \in DOMAIN environs :
             p = last'.p /\ e = last'.env /\ Agree(p, e)']_vars

\* A successful pull into a fresh tree, by dev that declares a then b, of an
\* archive that holds a then b; the ref file is the ID and a newline.
C32_Witness ==
    /\ last.op = "pull" /\ last.err = nil
    /\ last.wrote = {"a", "b"}
    /\ InDeclaredOrder(last.data, environs["dev"].Files)
    /\ environs["dev"].Files = <<"a", "b">>
    /\ refs["p1"]["dev.hash"] = {last.key \o <<"\n">>}

(***************************************************************************)
(* C33.  Push and pull read the ref file the same way: pull asks the       *)
(* remote for the trimmed content of the ref file, and a push whose        *)
(* archive ID is the trimmed content of the ref file returns success       *)
(* without a Remote.Write and leaves the ref file as it is.                *)
(***************************************************************************)
C33_RefReadAlike ==
    [][(Completes /\ last'.key # nil /\ last'.pre.ref # {}
        /\ last'.key = TrimSpace(FileOf(last'.pre.ref)))
       => (\/ last'.op = "pull" /\ last'.gets = <<last'.key>>
           \/ /\ last'.op = "push"
              /\ last'.err = nil
              /\ last'.calls = <<>>
              /\ refs' = refs)]_vars

(***************************************************************************)
(* A Cache that starts empty on both sides and is used through Cache.Get   *)
(* and Cache.Write alone, by one client; an I/O fault may strike any call  *)
(* of Of or By.                                                            *)
(***************************************************************************)
NextCacheOnly ==
    \/ \E key \in ClientKeys, val \in ClientVals : CacheWrite("p1", key, val)
    \/ \E key \in ClientKeys : CacheGet("p1", key)
    \/ ClientDone("p1")
    \/ BackendStep("p1")
    \/ CacheStep("p1")

SpecCacheOnly == InitCache /\ [][NextCacheOnly]_vars

(***************************************************************************)
(* C34.  The cache never holds what the origin lacks: whenever no call is  *)
(* under way, every key that By holds is held by Of with the same bytes.   *)
(***************************************************************************)
C34_CacheWithinOrigin ==
    Quiet => \A key \in DOMAIN store["by"] :
                /\ key \in DOMAIN store["of"]
                /\ store["of"][key] = store["by"][key]

(***************************************************************************)
(* C35.  A failed filesystem write can be retried: when FS.Write(key, v)   *)
(* has returned an error after creating the key's file, and the next call  *)
(* FS.Write(key, v) returns success, the key holds v.                      *)
(***************************************************************************)
C35_RetryRepairs ==
    [][(/\ Completes /\ kind["of"] = "FS"
        /\ last.op = "Write" /\ last.env = "of" /\ last.err # nil
        /\ last.pre.of = {} /\ last.post.of # {}
        /\ last'.op = "Write" /\ last'.env = "of" /\ last'.err = nil
        /\ last'.key = last.key /\ last'.val = last.val)
       => last'.post.of = {last.val}]_vars

(***************************************************************************)
(* C36.  Pull is all-or-nothing for the working tree: whenever pull        *)
(* returns an error, every tracked file has the content it had before the  *)
(* call.                                                                   *)
(***************************************************************************)
C36_AllOrNothing ==
    [][(Completes /\ last'.op = "pull" /\ last'.err # nil)
       => \A f \in Tracked(last'.env) : tree'[last'.p][f] = last'.pre.tree[f]]_vars

\* The entry at which the write loop of a failed pull stopped; 0 when the
\* pull failed before the loop.
WriteFailedAt(rec) ==
    IF Len(rec.err) = 2 /\ rec.err[1] = "failed to write file"
    THEN CHOOSE k \in 1..Len(ZipRead(rec.data).File) : ZipRead(rec.data).File[k][1] = rec.err[2]
    ELSE 0

(***************************************************************************)
(* C36, amended.  A pull that returns an error before its write loop (ref  *)
(* file, download, archive format, missing or extraneous entries) leaves   *)
(* every file as it was.  A pull that returns a local I/O error at the     *)
(* k-th entry has brought the entries before it to the archive's bytes,    *)
(* has left the k-th file as it was or truncated, and has not touched the  *)
(* entries after it nor any other file.                                    *)
(***************************************************************************)
C36_AbortsBeforeOrAtEntry ==
    [][(Completes /\ last'.op = "pull" /\ last'.err # nil)
       => LET File == ZipRead(last'.data).File
              k == WriteFailedAt(last')
              before == last'.pre.tree
              after == tree'[last'.p]
          IN /\ k = 0 => (after = before /\ last'.wrote = {})
             /\ \A i \in 1..Len(File) :
                   /\ (0 < k /\ i < k) => after[File[i][1]] = File[i][2]
                   /\ (0 < k /\ i = k) => after[File[i][1]] \in {before[File[i][1]], Empty}
                   /\ (0 < k /\ i > k) => after[File[i][1]] = before[File[i][1]]
             /\ \A f \in Paths \ EntryNames(last'.data) : after[f] = before[f]]_vars

\* A pull failed writing its second entry: the first one holds the archive's
\* bytes, which it did not before, and the second one is as it was.
C36_Witness ==
    /\ last.op = "pull" /\ WriteFailedAt(last) = 2
    /\ last.wrote = {ZipRead(last.data).File[1][1]}
    /\ tree["p1"][ZipRead(last.data).File[1][1]] = ZipRead(last.data).File[1][2]
    /\ last.pre.tree[ZipRead(last.data).File[1][1]] # ZipRead(last.data).File[1][2]
    /\ tree["p1"][ZipRead(last.data).File[2][1]] = last.pre.tree[ZipRead(last.data).File[2][1]]
    /\ last.pre.tree[ZipRead(last.data).File[2][1]] # ZipRead(last.data).File[2][2]

(***************************************************************************)
(* C38.  Pull touches only declared paths: every pull, successful or       *)
(* failing, writes only files of the environment's declared list and       *)
(* leaves every other file as it was; and a pull that has written a file   *)
(* had found the archive's entry names equal to the declared list.         *)
(***************************************************************************)
C38_OnlyDeclaredPaths ==
    [][(Completes /\ last'.op = "pull")
       => (/\ last'.wrote \subseteq Tracked(last'.env)
           /\ \A f \in Paths :
                 tree'[last'.p][f] # last'.pre.tree[f]
                 => (f \in Tracked(last'.env) /\ f \in last'.wrote)
           /\ last'.wrote # {} => EntryNames(last'.data) = Tracked(last'.env))]_vars

\* dev declares a alone and the working tree also holds b: a pull wrote a and
\* left b.
C38_Witness ==
    /\ last.op = "pull" /\ last.err = nil
    /\ environs["dev"].Files = <<"a">>
    /\ last.wrote = {"a"}
    /\ last.pre.tree["b"] \in Contents
    /\ tree["p1"]["a"] # last.pre.tree["a"]
    /\ tree["p1"]["b"] = last.pre.tree["b"]

(***************************************************************************)
(* C37.  Diff is read-only: no step of a diff, successful or failing,      *)
(* changes a file of the working tree, a ref file or what the origin       *)
(* holds; a diff never calls Write on the environment's remote, and the    *)
(* one write it causes is that of Cache.Get, which stores in By the bytes  *)
(* it has read from Of.                                                    *)
(***************************************************************************)
Diffing == \E p \in Procs : Busy(p) /\ cur[p].op = "diff"

C37_DiffReadOnly ==
    [][(Diffing \/ (Completes /\ last'.op = "diff"))
       => (/\ tree' = tree
           /\ refs' = refs
           /\ store'["of"] = store["of"]
           /\ top = "of" => store' = store
           /\ \A key \in DOMAIN store'["by"] :
                 \/ key \in DOMAIN store["by"] /\ store'["by"][key] = store["by"][key]
                 \/ key \in DOMAIN store["of"] /\
                       store'["by"][key] \in
                          {Prefix(store["of"][key], n) : n \in 0..Len(store["of"][key])}
           /\ Completes
                 => (/\ last'.wrote = {}
                     /\ \A i \in 1..Len(last'.calls) :
                           last'.calls[i][2] = "Write"
                           => (top = "cache" /\ last'.calls[i][1] = "by")))]_vars

\* A diff of two stored versions through a Cache printed a difference and
\* left the working tree and the ref files as the user had set them; the
\* Cache has filled By with both archives.
C37_Witness ==
    /\ last.op = "diff" /\ last.err = nil /\ top = "cache"
    /\ last.diff.out # <<>>
    /\ Len(last.gets) = 2
    /\ \A i \in 1..2 : Has("by", last.gets[i]) /\ Blob("by", last.gets[i]) = Blob("of", last.gets[i])
    /\ tree["p1"]["a"] # NoFile
    /\ refs["p1"]["dev.hash"] # {}

====
